---------------------------- MODULE Spec2Model ----------------------------
(***************************************************************************)
(* A model of dover/models/swin_backbone.py: the 3D Swin Transformer       *)
(* backbone.  Tensors are modelled as a shape plus contiguous row-major    *)
(* data, so that view / permute / roll / slicing are the index             *)
(* computations the library performs.  Learned arithmetic (linear layers,  *)
(* norms, softmax) is kept symbolic: the model follows shapes, token       *)
(* positions, index tables and masks.                                      *)
(***************************************************************************)
EXTENDS Integers, Sequences, FiniteSets, TLC

(***************************************************************************)
(* State.  Each group of variables belongs to one specification; a         *)
(* specification leaves the other groups idle.                             *)
(***************************************************************************)
\* window_partition / window_reverse on a volume
VARIABLES wp_pc, wp_x, wp_window_size, wp_windows, wp_out
\* WindowAttention3D: relative position index, built and used
VARIABLES ix_pc, ix_window_size, ix_index, ix_use_window, ix_resized, ix_rpi
\* BasicLayer.forward: one stage, its blocks and its downsampler
VARIABLES ly_pc, ly_self, ly_x_size, ly_resized, ly_window_size,
          ly_shift_size, ly_padded, ly_attn_mask, ly_i, ly_blk
\* get_window_size, statement by statement, on a heap of list objects
VARIABLES gw_pc, gw_call, gw_heap, gw_use_window_size, gw_use_shift_size, gw_i,
          gw_ret
\* SwinTransformerBlock3D.forward of the blocks of one stage, on symbolic values
VARIABLES bk_pc, bk_self, bk_i, bk_in, bk_x, bk_trace
\* the fragment gate of WindowAttention3D.forward, as forward_part1 calls it
VARIABLES fg_pc, fg_x_size, fg_self, fg_resized, fg_window_size, fg_shift_size,
          fg_padded, fg_fmask, fg_fgate
\* SwinTransformer3D.forward on the shapes of its tensors
VARIABLES bb_pc, bb_args, bb_resized, bb_x, bb_feats, bb_l, bb_i, bb_stage,
          bb_blk, bb_ret
\* PatchMerging.forward on a volume
VARIABLES pm_pc, pm_x, pm_cat, pm_out_shape
\* SwinTransformer3D._freeze_stages and train on the modules' flags
VARIABLES fz_pc, fz_frozen_stages, fz_training, fz_requires_grad, fz_calls
\* load_swin and inflate_weights on the shapes of the state dicts
VARIABLES ld_pc, ld_self, ld_ckpt, ld_dict, ld_todo, ld_live, ld_err
\* the lru_cache of compute_mask and of global_position_index
VARIABLES mc_fn, mc_cache, mc_args, mc_ret, mc_hit
\* get_adaptive_window_size on drawn triples
VARIABLES aw_pc, aw_args, aw_ret

wpVars == <<wp_pc, wp_x, wp_window_size, wp_windows, wp_out>>
ixVars == <<ix_pc, ix_window_size, ix_index, ix_use_window, ix_resized, ix_rpi>>
lyVars == <<ly_pc, ly_self, ly_x_size, ly_resized, ly_window_size,
            ly_shift_size, ly_padded, ly_attn_mask, ly_i, ly_blk>>
gwVars == <<gw_pc, gw_call, gw_heap, gw_use_window_size, gw_use_shift_size,
            gw_i, gw_ret>>
bkVars == <<bk_pc, bk_self, bk_i, bk_in, bk_x, bk_trace>>
bbVars == <<bb_pc, bb_args, bb_resized, bb_x, bb_feats, bb_l, bb_i, bb_stage,
            bb_blk, bb_ret>>
pmVars == <<pm_pc, pm_x, pm_cat, pm_out_shape>>
fgVars == <<fg_pc, fg_x_size, fg_self, fg_resized, fg_window_size, fg_shift_size,
            fg_padded, fg_fmask, fg_fgate>>
fzVars == <<fz_pc, fz_frozen_stages, fz_training, fz_requires_grad, fz_calls>>
ldVars == <<ld_pc, ld_self, ld_ckpt, ld_dict, ld_todo, ld_live, ld_err>>
mcVars == <<mc_fn, mc_cache, mc_args, mc_ret, mc_hit>>
awVars == <<aw_pc, aw_args, aw_ret>>
vars == <<wpVars, ixVars, lyVars, pmVars, fgVars, bkVars, gwVars, bbVars, fzVars, ldVars, mcVars, awVars>>
\* what the actions of one group leave unchanged
notWp == <<ixVars, lyVars, pmVars, fgVars, bkVars, gwVars, bbVars, fzVars, ldVars, mcVars, awVars>>
notIx == <<wpVars, lyVars, pmVars, fgVars, bkVars, gwVars, bbVars, fzVars, ldVars, mcVars, awVars>>
notLy == <<wpVars, ixVars, pmVars, fgVars, bkVars, gwVars, bbVars, fzVars, ldVars, mcVars, awVars>>
notPm == <<wpVars, ixVars, lyVars, fgVars, bkVars, gwVars, bbVars, fzVars, ldVars, mcVars, awVars>>
notFg == <<wpVars, ixVars, lyVars, pmVars, bkVars, gwVars, bbVars, fzVars, ldVars, mcVars, awVars>>
notBk == <<wpVars, ixVars, lyVars, pmVars, fgVars, gwVars, bbVars, fzVars, ldVars, mcVars, awVars>>
notGw == <<wpVars, ixVars, lyVars, pmVars, fgVars, bkVars, bbVars, fzVars, ldVars, mcVars, awVars>>
notBb == <<wpVars, ixVars, lyVars, pmVars, fgVars, bkVars, gwVars, fzVars, ldVars, mcVars, awVars>>
notFz == <<wpVars, ixVars, lyVars, pmVars, fgVars, bkVars, gwVars, bbVars, ldVars, mcVars, awVars>>
notLd == <<wpVars, ixVars, lyVars, pmVars, fgVars, bkVars, gwVars, bbVars, fzVars, mcVars, awVars>>
notMc == <<wpVars, ixVars, lyVars, pmVars, fgVars, bkVars, gwVars, bbVars, fzVars, ldVars, awVars>>
notAw == <<wpVars, ixVars, lyVars, pmVars, fgVars, bkVars, gwVars, bbVars, fzVars, ldVars, mcVars>>

NoTensor == [shape |-> <<>>, data |-> <<>>]

WpIdle ==
    /\ wp_pc = "idle"
    /\ wp_x = NoTensor
    /\ wp_window_size = <<>>
    /\ wp_windows = NoTensor
    /\ wp_out = NoTensor

IxIdle ==
    /\ ix_pc = "idle"
    /\ ix_window_size = <<>>
    /\ ix_index = NoTensor
    /\ ix_use_window = <<>>
    /\ ix_resized = <<>>
    /\ ix_rpi = NoTensor

NoBlock == [window_size |-> <<>>, shift_size |-> <<>>, pad |-> <<>>,
            padded |-> <<>>, masked |-> FALSE, tokens |-> NoTensor]

NoExpr == [op |-> "none", args |-> <<>>]

LyIdle ==
    /\ ly_pc = "idle"
    /\ ly_self = <<>>
    /\ ly_x_size = <<>>
    /\ ly_resized = <<>>
    /\ ly_window_size = <<>>
    /\ ly_shift_size = <<>>
    /\ ly_padded = <<>>
    /\ ly_attn_mask = NoTensor
    /\ ly_i = 0
    /\ ly_blk = NoBlock

BkIdle ==
    /\ bk_pc = "idle"
    /\ bk_self = <<>>
    /\ bk_i = 0
    /\ bk_in = NoExpr
    /\ bk_x = NoExpr
    /\ bk_trace = <<>>

GwIdle ==
    /\ gw_pc = "idle"
    /\ gw_call = <<>>
    /\ gw_heap = <<>>
    /\ gw_use_window_size = "none"
    /\ gw_use_shift_size = "none"
    /\ gw_i = 0
    /\ gw_ret = <<>>

BbIdle ==
    /\ bb_pc = "idle"
    /\ bb_args = <<>>
    /\ bb_resized = <<>>
    /\ bb_x = <<>>
    /\ bb_feats = <<>>
    /\ bb_l = 0
    /\ bb_i = 0
    /\ bb_stage = <<>>
    /\ bb_blk = <<>>
    /\ bb_ret = <<>>

PmIdle ==
    /\ pm_pc = "idle"
    /\ pm_x = NoTensor
    /\ pm_cat = NoTensor
    /\ pm_out_shape = <<>>

FgIdle ==
    /\ fg_pc = "idle"
    /\ fg_x_size = <<>>
    /\ fg_self = <<>>
    /\ fg_resized = <<>>
    /\ fg_window_size = <<>>
    /\ fg_shift_size = <<>>
    /\ fg_padded = <<>>
    /\ fg_fmask = NoTensor
    /\ fg_fgate = NoTensor

FzIdle ==
    /\ fz_pc = "idle"
    /\ fz_frozen_stages = 0
    /\ fz_training = <<>>
    /\ fz_requires_grad = <<>>
    /\ fz_calls = <<>>

LdIdle ==
    /\ ld_pc = "idle"
    /\ ld_self = <<>>
    /\ ld_ckpt = <<>>
    /\ ld_dict = <<>>
    /\ ld_todo = <<>>
    /\ ld_live = <<>>
    /\ ld_err = "none"

McIdle ==
    /\ mc_fn = "none"
    /\ mc_cache = <<>>
    /\ mc_args = <<>>
    /\ mc_ret = <<>>
    /\ mc_hit = FALSE

AwIdle ==
    /\ aw_pc = "idle"
    /\ aw_args = <<>>
    /\ aw_ret = <<>>

\* the other groups idle
OnlyWp == IxIdle /\ LyIdle /\ PmIdle /\ FgIdle /\ BkIdle /\ GwIdle /\ BbIdle /\ FzIdle /\ LdIdle /\ McIdle /\ AwIdle
OnlyIx == WpIdle /\ LyIdle /\ PmIdle /\ FgIdle /\ BkIdle /\ GwIdle /\ BbIdle /\ FzIdle /\ LdIdle /\ McIdle /\ AwIdle
OnlyLy == WpIdle /\ IxIdle /\ PmIdle /\ FgIdle /\ BkIdle /\ GwIdle /\ BbIdle /\ FzIdle /\ LdIdle /\ McIdle /\ AwIdle
OnlyPm == WpIdle /\ IxIdle /\ LyIdle /\ FgIdle /\ BkIdle /\ GwIdle /\ BbIdle /\ FzIdle /\ LdIdle /\ McIdle /\ AwIdle
OnlyFg == WpIdle /\ IxIdle /\ LyIdle /\ PmIdle /\ BkIdle /\ GwIdle /\ BbIdle /\ FzIdle /\ LdIdle /\ McIdle /\ AwIdle
OnlyBk == WpIdle /\ IxIdle /\ LyIdle /\ PmIdle /\ FgIdle /\ GwIdle /\ BbIdle /\ FzIdle /\ LdIdle /\ McIdle /\ AwIdle
OnlyGw == WpIdle /\ IxIdle /\ LyIdle /\ PmIdle /\ FgIdle /\ BkIdle /\ BbIdle /\ FzIdle /\ LdIdle /\ McIdle /\ AwIdle
OnlyBb == WpIdle /\ IxIdle /\ LyIdle /\ PmIdle /\ FgIdle /\ BkIdle /\ GwIdle /\ FzIdle /\ LdIdle /\ McIdle /\ AwIdle
OnlyFz == WpIdle /\ IxIdle /\ LyIdle /\ PmIdle /\ FgIdle /\ BkIdle /\ GwIdle /\ BbIdle /\ LdIdle /\ McIdle /\ AwIdle
OnlyLd == WpIdle /\ IxIdle /\ LyIdle /\ PmIdle /\ FgIdle /\ BkIdle /\ GwIdle /\ BbIdle /\ FzIdle /\ McIdle /\ AwIdle
OnlyMc == WpIdle /\ IxIdle /\ LyIdle /\ PmIdle /\ FgIdle /\ BkIdle /\ GwIdle /\ BbIdle /\ FzIdle /\ LdIdle /\ AwIdle
OnlyAw == WpIdle /\ IxIdle /\ LyIdle /\ PmIdle /\ FgIdle /\ BkIdle /\ GwIdle /\ BbIdle /\ FzIdle /\ LdIdle /\ McIdle

(***************************************************************************)
(* Bounds of the model.                                                    *)
(***************************************************************************)
\* largest window extent per axis drawn for the window utilities
MaxWin == 2
\* largest number of windows per axis drawn for the window utilities
MaxGrid == 2
\* largest configured window extent per axis drawn for the index tables
MaxIdxWin == 3

\* largest depth extent and largest height / width extent of a stage input
MaxD == 2
MaxHW == 3
\* largest configured window extent of a stage, per axis
MaxLyWin == 2
\* largest height / width extent of a volume handed to PatchMerging
MaxPmHW == 5

\* batch sizes and channel counts drawn for the window utilities
BatchSizes == {1, 2}
Channels == {1, 2}

(***************************************************************************)
(* Tensors: [shape |-> <<n1,...,nk>>, data |-> [0..N-1 -> value]].         *)
(***************************************************************************)
RECURSIVE Prod(_)
Prod(s) == IF s = <<>> THEN 1 ELSE Head(s) * Prod(Tail(s))

\* row-major strides of a contiguous tensor of shape s
Strides(s) == [i \in 1..Len(s) |-> Prod(SubSeq(s, i + 1, Len(s)))]

RECURSIVE SumTo(_, _)
SumTo(f, n) == IF n = 0 THEN 0 ELSE f[n] + SumTo(f, n - 1)

\* flat offset of the multi-index idx (0-based entries) in shape s:
\* ((idx[1] * s[2] + idx[2]) * s[3] + idx[3]) ...
RECURSIVE RavelFrom(_, _, _, _)
RavelFrom(idx, s, i, acc) ==
    IF i > Len(s) THEN acc ELSE RavelFrom(idx, s, i + 1, acc * s[i] + idx[i])

Ravel(idx, s) == RavelFrom(idx, s, 1, 0)

\* multi-index (0-based entries) of flat offset k in shape s
RECURSIVE UnravelTo(_, _, _)
UnravelTo(k, s, n) ==
    IF n = 0 THEN <<>> ELSE Append(UnravelTo(k \div s[n], s, n - 1), k % s[n])

Unravel(k, s) == UnravelTo(k, s, Len(s))

\* a tensor with its elements evaluated once and held in memory
Mat(t) == [shape |-> t.shape, data |-> t.data @@ <<>>]

\* Tensor.view(shape): same memory, new shape
View(t, shape) == [shape |-> shape, data |-> t.data]

\* Tensor.permute(perm).contiguous(): perm lists, 0-based, the old axis that
\* becomes each new axis
Permute(t, perm) ==
    LET old  == t.shape
        n    == Len(old)
        new  == [i \in 1..n |-> old[perm[i] + 1]]
        sOld == Strides(old)
        sNew == Strides(new)
        src(k) == SumTo([i \in 1..n |->
                            ((k \div sNew[i]) % new[i]) * sOld[perm[i] + 1]], n)
    IN  Mat([shape |-> new,
         data  |-> [k \in 0..(Prod(new) - 1) |-> t.data[src(k)]]])

\* element of tensor t at multi-index idx
At(t, idx) == t.data[Ravel(idx, t.shape)]

(***************************************************************************)
(* window_partition / window_reverse                                       *)
(***************************************************************************)
window_partition(x, window_size) ==
    LET B == x.shape[1]
        D == x.shape[2]
        H == x.shape[3]
        W == x.shape[4]
        C == x.shape[5]
        v == View(x, <<B, D \div window_size[1], window_size[1],
                          H \div window_size[2], window_size[2],
                          W \div window_size[3], window_size[3], C>>)
        p == Permute(v, <<0, 1, 3, 5, 2, 4, 6, 7>>)
        N == Prod(window_size)
    IN  View(p, <<Prod(p.shape) \div (N * C), N, C>>)

\* a reverse that reuses the permutation of window_partition
window_reverse_samePerm(windows, window_size, B, D, H, W) ==
    LET nD == D \div window_size[1]
        nH == H \div window_size[2]
        nW == W \div window_size[3]
        rest == B * nD * nH * nW * Prod(window_size)
        v == View(windows, <<B, nD, nH, nW, window_size[1], window_size[2],
                             window_size[3], Prod(windows.shape) \div rest>>)
        p == Permute(v, <<0, 1, 3, 5, 2, 4, 6, 7>>)
    IN  View(p, <<B, D, H, W, Prod(p.shape) \div (B * D * H * W)>>)

window_reverse(windows, window_size, B, D, H, W) ==
    LET nD == D \div window_size[1]
        nH == H \div window_size[2]
        nW == W \div window_size[3]
        rest == B * nD * nH * nW * Prod(window_size)
        v == View(windows, <<B, nD, nH, nW, window_size[1], window_size[2],
                             window_size[3], Prod(windows.shape) \div rest>>)
        p == Permute(v, <<0, 1, 4, 2, 5, 3, 6, 7>>)
    IN  View(p, <<B, D, H, W, Prod(p.shape) \div (B * D * H * W)>>)

(***************************************************************************)
(* State of the window-utility harness: a volume x whose elements are      *)
(* their own flat offsets (all distinct), partitioned and reversed.        *)
(***************************************************************************)

\* the volume (B, D, H, W, C) whose element at flat offset k is k
Volume(B, D, H, W, C) ==
    [shape |-> <<B, D, H, W, C>>,
     data  |-> [k \in 0..(B * D * H * W * C - 1) |-> k]]

WpInit ==
    /\ wp_pc = "start"
    /\ \E B \in BatchSizes, C \in Channels :
       \E wd \in 1..MaxWin, wh \in 1..MaxWin, ww \in 1..MaxWin :
       \E nd \in 1..MaxGrid, nh \in 1..MaxGrid, nw \in 1..MaxGrid :
          /\ wp_x = Volume(B, nd * wd, nh * wh, nw * ww, C)
          /\ wp_window_size = <<wd, wh, ww>>
    /\ wp_windows = NoTensor
    /\ wp_out = NoTensor

WpPartition ==
    /\ wp_pc = "start"
    /\ wp_windows' = window_partition(wp_x, wp_window_size)
    /\ wp_pc' = "partitioned"
    /\ UNCHANGED <<wp_x, wp_window_size, wp_out, notWp>>

WpReverse ==
    /\ wp_pc = "partitioned"
    /\ wp_out' = window_reverse(wp_windows, wp_window_size, wp_x.shape[1],
                                wp_x.shape[2], wp_x.shape[3], wp_x.shape[4])
    /\ wp_pc' = "reversed"
    /\ UNCHANGED <<wp_x, wp_window_size, wp_windows, notWp>>

WpNext == WpPartition \/ WpReverse

InitWindows == WpInit /\ OnlyWp

SpecWindows == InitWindows /\ [][WpNext]_vars

\* C1: window_reverse(window_partition(x, w), w, B, D, H, W) returns x exactly:
\* the same shape, and every element back at its original (b,d,h,w,c) position.
C1_RoundTrip ==
    wp_pc = "reversed" =>
        /\ wp_out.shape = wp_x.shape
        /\ \A k \in DOMAIN wp_x.data : wp_out.data[k] = wp_x.data[k]

\* a round trip over several windows of several tokens, where the
\* partition really moved elements
C1_Witness ==
    /\ wp_pc = "reversed"
    /\ wp_windows.shape[1] > wp_x.shape[1]
    /\ wp_windows.shape[2] > 1
    /\ wp_windows.data # wp_x.data
    /\ wp_out = wp_x

(***************************************************************************)
(* WindowAttention3D: the relative position index built by __init__ and    *)
(* the index table forward derives from it.                                *)
(***************************************************************************)
\* a meshgrid whose width coordinate is 0 everywhere
meshgrid_coords_noWidth(window_size) ==
    LET sh == <<3, window_size[1], window_size[2], window_size[3]>>
    IN  Mat([shape |-> sh,
         data  |-> [k \in 0..(Prod(sh) - 1) |->
                       LET idx == Unravel(k, sh)
                       IN  IF idx[1] = 2 THEN 0 ELSE idx[idx[1] + 2]]])

\* torch.stack(torch.meshgrid(arange(Wd), arange(Wh), arange(Ww))): 3,Wd,Wh,Ww
meshgrid_coords(window_size) ==
    LET sh == <<3, window_size[1], window_size[2], window_size[3]>>
    IN  Mat([shape |-> sh,
         data  |-> [k \in 0..(Prod(sh) - 1) |->
                       LET idx == Unravel(k, sh) IN idx[idx[1] + 2]]])

\* size of the bias table: (2Wd-1)(2Wh-1)(2Ww-1) rows
bias_table_rows(window_size) ==
    (2 * window_size[1] - 1) * (2 * window_size[2] - 1) * (2 * window_size[3] - 1)

\* an index whose height axis is scaled with the radix of the depth axis
relative_position_index_wrongRadix(window_size) ==
    LET N  == Prod(window_size)
        cf == View(meshgrid_coords(window_size), <<3, N>>)
        rel(i, j, c) == At(cf, <<c, i>>) - At(cf, <<c, j>>)
    IN  [shape |-> <<N, N>>,
         data  |-> [k \in 0..(N * N - 1) |->
            LET i == k \div N
                j == k % N
            IN  (rel(i, j, 0) + window_size[1] - 1)
                    * ((2 * window_size[2] - 1) * (2 * window_size[3] - 1))
                + (rel(i, j, 1) + window_size[2] - 1) * (2 * window_size[2] - 1)
                + (rel(i, j, 2) + window_size[3] - 1)]]

relative_position_index(window_size) ==
    LET N  == Prod(window_size)
        \* coords_flatten: 3, Wd*Wh*Ww
        cf == View(meshgrid_coords(window_size), <<3, N>>)
        \* relative_coords[c, i, j] = coords_flatten[c, i] - coords_flatten[c, j],
        \* then permuted to [i, j, c]
        relative_coords ==
            Permute([shape |-> <<3, N, N>>,
                     data  |-> [k \in 0..(3 * N * N - 1) |->
                        LET idx == Unravel(k, <<3, N, N>>)
                        IN  At(cf, <<idx[1], idx[2]>>) - At(cf, <<idx[1], idx[3]>>)]],
                    <<1, 2, 0>>)
        \* shift to start from 0, scale by the radices
        c0(i, j) == (At(relative_coords, <<i, j, 0>>) + window_size[1] - 1)
                        * ((2 * window_size[2] - 1) * (2 * window_size[3] - 1))
        c1(i, j) == (At(relative_coords, <<i, j, 1>>) + window_size[2] - 1)
                        * (2 * window_size[3] - 1)
        c2(i, j) == At(relative_coords, <<i, j, 2>>) + window_size[3] - 1
    IN  [shape |-> <<N, N>>,
         data  |-> [k \in 0..(N * N - 1) |->
                       c0(k \div N, k % N) + c1(k \div N, k % N) + c2(k \div N, k % N)]]

\* t[:n1, :n2, ...]: the leading lens[i] entries of every axis
SlicePrefix(t, lens) ==
    Mat([shape |-> lens,
     data  |-> [k \in 0..(Prod(lens) - 1) |-> At(t, Unravel(k, lens))]])

\* the index table rpi of WindowAttention3D.forward for N tokens:
\* resized_window_size is <<>> for None
attention_rpi(index, window_size, N, resized_window_size) ==
    IF resized_window_size = <<>>
    THEN SlicePrefix(index, <<N, N>>)
    ELSE SlicePrefix(View(index, window_size \o window_size),
                     resized_window_size \o resized_window_size)

Windows(max) == {<<d, h, w>> : d \in 1..max, h \in 1..max, w \in 1..max}

\* the windows no larger than ws on any axis
SubWindows(ws) == {<<d, h, w>> : d \in 1..ws[1], h \in 1..ws[2], w \in 1..ws[3]}

IxInit ==
    /\ ix_pc = "new"
    /\ ix_window_size \in Windows(MaxIdxWin)
    /\ ix_index = NoTensor
    /\ ix_use_window = <<>>
    /\ ix_resized = <<>>
    /\ ix_rpi = NoTensor

\* WindowAttention3D.__init__: register_buffer("relative_position_index", ...)
IxConstruct ==
    /\ ix_pc = "new"
    /\ ix_index' = relative_position_index(ix_window_size)
    /\ ix_pc' = "built"
    /\ UNCHANGED <<ix_window_size, ix_use_window, ix_resized, ix_rpi, notIx>>

\* WindowAttention3D.forward on windows of use_window tokens, with the
\* override window handed in (resized) or not
IxForward ==
    /\ ix_pc = "built"
    /\ \E use \in SubWindows(ix_window_size), resized \in BOOLEAN :
          /\ ix_use_window' = use
          /\ ix_resized' = IF resized THEN use ELSE <<>>
          /\ ix_rpi' = attention_rpi(ix_index, ix_window_size, Prod(use),
                                     IF resized THEN use ELSE <<>>)
    /\ ix_pc' = "forward"
    /\ UNCHANGED <<ix_window_size, ix_index, notIx>>

IxNext == IxConstruct \/ IxForward

InitIndex == IxInit /\ OnlyIx

SpecIndex == InitIndex /\ [][IxNext]_vars

\* the index the window ws gives the relative offset of tokens (d1,h1,w1) and
\* (d2,h2,w2)
OffsetCode(ws, d1, h1, w1, d2, h2, w2) ==
      (d1 - d2 + ws[1] - 1) * (2 * ws[2] - 1) * (2 * ws[3] - 1)
    + (h1 - h2 + ws[2] - 1) * (2 * ws[3] - 1)
    + (w1 - w2 + ws[3] - 1)

\* C2 as stated: the 6D slice [:d,:h,:w,:d,:h,:w] of the full-window index is,
\* entry for entry, the index built directly for the window (d,h,w).
C2_SliceEqualsDirect ==
    (ix_pc = "forward" /\ ix_resized # <<>>) =>
        ix_rpi.data = relative_position_index(ix_resized).data

\* C2 amended: every entry of the 6D slice is the index the configured window
\* gives that token pair's relative offset, and the slice is the directly
\* built table exactly when the smaller window is the configured one.
C2_SliceKeepsFullEncoding ==
    (ix_pc = "forward" /\ ix_resized # <<>>) =>
        /\ ix_rpi.shape = ix_resized \o ix_resized
        /\ \A k \in DOMAIN ix_rpi.data :
              LET p == Unravel(k, ix_rpi.shape)
              IN  ix_rpi.data[k] =
                    OffsetCode(ix_window_size, p[1], p[2], p[3], p[4], p[5], p[6])
        /\ (ix_rpi.data = relative_position_index(ix_resized).data
              <=> ix_resized = ix_window_size)

\* the slice of (3,3,3) to (2,3,3): a strictly smaller window on the depth axis
C2_Witness ==
    /\ ix_pc = "forward"
    /\ ix_window_size = <<3, 3, 3>>
    /\ ix_resized = <<2, 3, 3>>
    /\ ix_rpi.shape = <<2, 3, 3, 2, 3, 3>>
    /\ ix_rpi.data # relative_position_index(ix_resized).data

(***************************************************************************)
(* get_window_size, compute_mask, global_position_index                    *)
(***************************************************************************)
Max(a, b) == IF a >= b THEN a ELSE b
Min(a, b) == IF a <= b THEN a ELSE b
Abs(a) == IF a < 0 THEN 0 - a ELSE a

\* a get_window_size that reduces an axis only when the input is strictly
\* smaller than the window
get_window_size_strict(x_size, window_size, shift_size) ==
    [use_window_size |-> [i \in 1..Len(x_size) |->
          IF x_size[i] < window_size[i] THEN x_size[i] ELSE window_size[i]],
     use_shift_size  |-> [i \in 1..Len(x_size) |->
          IF x_size[i] < window_size[i] THEN 0 ELSE shift_size[i]]]

\* get_window_size(x_size, window_size, shift_size) with a shift_size given:
\* the pair (tuple(use_window_size), tuple(use_shift_size))
get_window_size(x_size, window_size, shift_size) ==
    [use_window_size |-> [i \in 1..Len(x_size) |->
          IF x_size[i] <= window_size[i] THEN x_size[i] ELSE window_size[i]],
     use_shift_size  |-> [i \in 1..Len(x_size) |->
          IF x_size[i] <= window_size[i] THEN 0 ELSE shift_size[i]]]

\* a Python index v on an axis of length n, as slice bounds normalise it
SliceBound(v, n) == IF v < 0 THEN Max(v + n, 0) ELSE Min(v, n)

\* the three slices of compute_mask on an axis of length n:
\* slice(-w), slice(-w, -s), slice(-s, None), each as [lo, hi)
mask_slices(n, w, s) ==
    << [lo |-> 0,                  hi |-> SliceBound(0 - w, n)],
       [lo |-> SliceBound(0 - w, n), hi |-> SliceBound(0 - s, n)],
       [lo |-> SliceBound(0 - s, n), hi |-> n] >>

\* img_mask after the triple loop: cnt counts the 27 iterations in order
\* (9 per depth slice, 3 per height slice, 1 per width slice), and a voxel keeps
\* the cnt of the last iteration whose three slices hold it, which is the
\* last depth slice, the last height slice and the last width slice holding
\* it; a voxel that no iteration writes keeps the 0 of torch.zeros
img_mask(D, H, W, window_size, shift_size) ==
    LET sd == mask_slices(D, window_size[1], shift_size[1])
        sh == mask_slices(H, window_size[2], shift_size[2])
        sw == mask_slices(W, window_size[3], shift_size[3])
        \* the last of the three slices sl that holds index i, 0 if none does
        last(sl, i) == IF sl[3].lo <= i /\ i < sl[3].hi THEN 3
                       ELSE IF sl[2].lo <= i /\ i < sl[2].hi THEN 2
                       ELSE IF sl[1].lo <= i /\ i < sl[1].hi THEN 1 ELSE 0
        cnt(a, b, c) == IF a = 0 \/ b = 0 \/ c = 0 THEN 0
                        ELSE 9 * (a - 1) + 3 * (b - 1) + (c - 1)
    IN  Mat([shape |-> <<1, D, H, W, 1>>,
         data  |-> [k \in 0..(D * H * W - 1) |->
                       LET idx == Unravel(k, <<D, H, W>>)
                       IN  cnt(last(sd, idx[1]), last(sh, idx[2]),
                               last(sw, idx[3]))]])

\* a compute_mask without the masked_fill calls
compute_mask_noFill(D, H, W, window_size, shift_size) ==
    LET mask_windows == window_partition(img_mask(D, H, W, window_size, shift_size),
                                         window_size)
        nW == mask_windows.shape[1]
        N  == mask_windows.shape[2]
    IN  [shape |-> <<nW, N, N>>,
         data  |-> [k \in 0..(nW * N * N - 1) |->
              LET idx == Unravel(k, <<nW, N, N>>)
              IN  At(mask_windows, <<idx[1], idx[3], 0>>)
                    - At(mask_windows, <<idx[1], idx[2], 0>>)]]

\* compute_mask(D, H, W, window_size, shift_size, device): nW, N, N
compute_mask(D, H, W, window_size, shift_size) ==
    LET mask_windows == window_partition(img_mask(D, H, W, window_size, shift_size),
                                         window_size)
        nW == mask_windows.shape[1]
        N  == mask_windows.shape[2]
        \* mask_windows.unsqueeze(1) - mask_windows.unsqueeze(2)
        diff(n, i, j) == At(mask_windows, <<n, j, 0>>) - At(mask_windows, <<n, i, 0>>)
        \* masked_fill(attn_mask != 0, -100.0).masked_fill(attn_mask == 0, 0.0)
        fill(v) == LET f1 == IF v # 0 THEN 0 - 100 ELSE v
                   IN  IF v = 0 THEN 0 ELSE f1
    IN  [shape |-> <<nW, N, N>>,
         data  |-> [k \in 0..(nW * N * N - 1) |->
              LET idx == Unravel(k, <<nW, N, N>>)
              IN  fill(diff(idx[1], idx[2], idx[3]))]]

\* a roll that moves every axis forward by the size of its shift
Roll_forward(t, shifts) ==
    LET sh == t.shape
    IN  Mat([shape |-> sh,
         data  |-> [k \in 0..(Prod(sh) - 1) |->
              LET idx == Unravel(k, sh)
              IN  At(t, [a \in 1..Len(sh) |-> (idx[a] - Abs(shifts[a])) % sh[a]])]])

\* torch.roll(t, shifts, dims): out[i] = t[(i - shift) mod n] on every rolled
\* axis; shifts[a] is the shift of 1-based axis a (0 for an axis not rolled)
Roll(t, shifts) ==
    LET sh == t.shape
    IN  Mat([shape |-> sh,
         data  |-> [k \in 0..(Prod(sh) - 1) |->
              LET idx == Unravel(k, sh)
              IN  At(t, [a \in 1..Len(sh) |-> (idx[a] - shifts[a]) % sh[a]])]])

\* F.interpolate(frags[None], size=(D, H, W)) in the default nearest mode, then
\* .long().permute(0, 2, 3, 4, 1): 1, D, H, W, 3.  The source index of output
\* index i on an axis is min(floor(i * in / out), in - 1).
fragment_coords(D, H, W, fragments) ==
    LET out == <<D, H, W>>
        srcIdx(i, a) == Min((i * fragments[a]) \div out[a], fragments[a] - 1)
    IN  Mat([shape |-> <<1, D, H, W, 3>>,
         data  |-> [k \in 0..(D * H * W * 3 - 1) |->
              LET idx == Unravel(k, <<1, D, H, W, 3>>)
                  c   == idx[5] + 1
              \* frags[c] of the meshgrid is the coordinate on axis c
              IN  srcIdx(idx[c + 1], c)]])

\* global_position_index(D, H, W, fragments, window_size, shift_size, device):
\* relative_coords, nW, N, N, 3
global_position_index(D, H, W, fragments, window_size, shift_size) ==
    LET coords == Roll(fragment_coords(D, H, W, fragments),
                       <<0, 0 - shift_size[1], 0 - shift_size[2],
                         0 - shift_size[3], 0>>)
        window_coords == window_partition(coords, window_size)
        nW == window_coords.shape[1]
        N  == window_coords.shape[2]
    IN  Mat([shape |-> <<nW, N, N, 3>>,
         data  |-> [k \in 0..(nW * N * N * 3 - 1) |->
              LET idx == Unravel(k, <<nW, N, N, 3>>)
              \* window_coords[:, None, :] - window_coords[:, :, None]
              IN  At(window_coords, <<idx[1], idx[3], idx[4]>>)
                    - At(window_coords, <<idx[1], idx[2], idx[4]>>)]])

\* fgate = fmask.abs().sum(-1) of WindowAttention3D.forward: nW, N, N
attention_fgate(fmask) ==
    LET nW == fmask.shape[1]
        N  == fmask.shape[2]
    IN  [shape |-> <<nW, N, N>>,
         data  |-> [k \in 0..(nW * N * N - 1) |->
              LET idx == Unravel(k, <<nW, N, N>>)
              IN  SumTo([c \in 1..3 |->
                     Abs(At(fmask, <<idx[1], idx[2], idx[3], c - 1>>))], 3)]]

(***************************************************************************)
(* Symbolic values: the learned arithmetic applied to a feature map.       *)
(***************************************************************************)
Leaf(name) == [op |-> name, args |-> <<>>]
Apply(f, a) == [op |-> f, args |-> <<a>>]
Add(a, b) == [op |-> "add", args |-> <<a, b>>]

(***************************************************************************)
(* Padding, strided slicing and concatenation                              *)
(***************************************************************************)
\* the value of a padded element
PadValue == 0 - 1

\* F.pad at the high side of the axes only: t inside the old extents,
\* PadValue elsewhere
PadHigh(t, shape) ==
    Mat([shape |-> shape,
     data  |-> [k \in 0..(Prod(shape) - 1) |->
          LET idx == Unravel(k, shape)
          IN  IF \A a \in 1..Len(shape) : idx[a] < t.shape[a]
              THEN At(t, idx) ELSE PadValue]])

\* x[:, :, h0::2, w0::2, :] of a (B, D, H, W, C) tensor
StridedHW(x, h0, w0) ==
    LET sh == <<x.shape[1], x.shape[2], (x.shape[3] - h0 + 1) \div 2,
                (x.shape[4] - w0 + 1) \div 2, x.shape[5]>>
    IN  Mat([shape |-> sh,
         data  |-> [k \in 0..(Prod(sh) - 1) |->
              LET idx == Unravel(k, sh)
              IN  At(x, <<idx[1], idx[2], h0 + 2 * idx[3], w0 + 2 * idx[4], idx[5]>>)]])

\* torch.cat(ts, -1) of tensors that agree on every axis but the last
CatLast(ts) ==
    LET C  == ts[1].shape[Len(ts[1].shape)]
        n  == Len(ts[1].shape)
        sh == [a \in 1..n |-> IF a = n THEN Len(ts) * C ELSE ts[1].shape[a]]
    IN  Mat([shape |-> sh,
         data  |-> [k \in 0..(Prod(sh) - 1) |->
              LET idx == Unravel(k, sh)
              IN  At(ts[(idx[n] \div C) + 1],
                     [a \in 1..n |-> IF a = n THEN idx[n] % C ELSE idx[a]])]])

\* a PatchMerging that concatenates the sub-grids in row-major order
PatchMerging_concat_rowMajor(x) ==
    LET H  == x.shape[3]
        W  == x.shape[4]
        xp == IF (H % 2 = 1) \/ (W % 2 = 1)
              THEN PadHigh(x, <<x.shape[1], x.shape[2], H + (H % 2), W + (W % 2),
                                x.shape[5]>>)
              ELSE x
    IN  CatLast(<<StridedHW(xp, 0, 0), StridedHW(xp, 0, 1),
                  StridedHW(xp, 1, 0), StridedHW(xp, 1, 1)>>)

\* PatchMerging.forward up to torch.cat: B, D, H/2, W/2, 4*C
PatchMerging_concat(x) ==
    LET H  == x.shape[3]
        W  == x.shape[4]
        pad_input == (H % 2 = 1) \/ (W % 2 = 1)
        xp == IF pad_input
              THEN PadHigh(x, <<x.shape[1], x.shape[2], H + (H % 2), W + (W % 2),
                                x.shape[5]>>)
              ELSE x
        x0 == StridedHW(xp, 0, 0)
        x1 == StridedHW(xp, 1, 0)
        x2 == StridedHW(xp, 0, 1)
        x3 == StridedHW(xp, 1, 1)
    IN  CatLast(<<x0, x1, x2, x3>>)

\* shape after self.norm and self.reduction = nn.Linear(4 * dim, 2 * dim)
PatchMerging_shape(cat_shape, dim) ==
    [a \in 1..Len(cat_shape) |-> IF a = Len(cat_shape) THEN 2 * dim ELSE cat_shape[a]]

(***************************************************************************)
(* PatchMerging.forward on a volume x whose elements are their own flat    *)
(* offsets.                                                                *)
(***************************************************************************)
PmInit ==
    /\ pm_pc = "start"
    /\ \E B \in BatchSizes, C \in Channels, D \in 1..MaxD :
       \E H \in 1..MaxPmHW, W \in 1..MaxPmHW :
          pm_x = Volume(B, D, H, W, C)
    /\ pm_cat = NoTensor
    /\ pm_out_shape = <<>>

PmForward ==
    /\ pm_pc = "start"
    /\ pm_cat' = PatchMerging_concat(pm_x)
    /\ pm_out_shape' = PatchMerging_shape(PatchMerging_concat(pm_x).shape,
                                          pm_x.shape[5])
    /\ pm_pc' = "merged"
    /\ UNCHANGED <<pm_x, notPm>>

PmNext == PmForward

InitPatchMerging == PmInit /\ OnlyPm

SpecPatchMerging == InitPatchMerging /\ [][PmNext]_vars

\* a ceiling that rounds down
CeilDiv_floor(a, b) == a \div b

CeilDiv(a, b) == (a + b - 1) \div b

\* C8: PatchMerging.forward maps (B,D,H,W,C) to (B,D,ceil(H/2),ceil(W/2),2C);
\* an odd H gets exactly one padded row and an odd W exactly one padded column,
\* at the high side, even axes get none; channel g*C + c of the 4C concatenated
\* channels is channel c of sub-grid g, in the order (even h, even w),
\* (odd h, even w), (even h, odd w), (odd h, odd w).
C8_PatchMerging ==
    pm_pc = "merged" =>
        LET B == pm_x.shape[1]
            D == pm_x.shape[2]
            H == pm_x.shape[3]
            W == pm_x.shape[4]
            C == pm_x.shape[5]
            hOff == <<0, 1, 0, 1>>
            wOff == <<0, 0, 1, 1>>
        IN  /\ pm_out_shape = <<B, D, CeilDiv(H, 2), CeilDiv(W, 2), 2 * C>>
            /\ pm_cat.shape = <<B, D, CeilDiv(H, 2), CeilDiv(W, 2), 4 * C>>
            /\ \A b \in 0..(B - 1), d \in 0..(D - 1), c \in 0..(C - 1), g \in 1..4 :
               \A h2 \in 0..(CeilDiv(H, 2) - 1), w2 \in 0..(CeilDiv(W, 2) - 1) :
                  LET h == 2 * h2 + hOff[g]
                      w == 2 * w2 + wOff[g]
                      v == At(pm_cat, <<b, d, h2, w2, (g - 1) * C + c>>)
                  IN  IF h < H /\ w < W
                      THEN v = At(pm_x, <<b, d, h, w, c>>)
                      ELSE /\ v = PadValue
                           /\ (h = H /\ H % 2 = 1) \/ (w = W /\ W % 2 = 1)

\* a merge of a volume with odd height and odd width and several channels
C8_Witness ==
    /\ pm_pc = "merged"
    /\ pm_x.shape[3] = 3
    /\ pm_x.shape[4] = 5
    /\ pm_x.shape[5] = 2
    /\ pm_cat.shape = <<pm_x.shape[1], pm_x.shape[2], 2, 3, 8>>
    /\ PadValue \in {pm_cat.data[k] : k \in DOMAIN pm_cat.data}

(***************************************************************************)
(* SwinTransformerBlock3D                                                  *)
(***************************************************************************)
AnyPositive(t) == \E i \in 1..Len(t) : t[i] > 0

\* the locals of forward_part1 on a (B, D, H, W, C) tensor of tokens x, for a
\* block configured with (self_window_size, self_shift_size);
\* resized_window_size is <<>> for None.  The attention module returns, for
\* every window, one output token per input token, in the same slot.
forward_part1(self_window_size, self_shift_size, x, resized_window_size) ==
    LET B == x.shape[1]
        D == x.shape[2]
        H == x.shape[3]
        W == x.shape[4]
        C == x.shape[5]
        ws == get_window_size(<<D, H, W>>,
                              IF resized_window_size = <<>> THEN self_window_size
                              ELSE resized_window_size,
                              self_shift_size)
        window_size == ws.use_window_size
        shift_size  == ws.use_shift_size
        pad_d1 == (window_size[1] - (D % window_size[1])) % window_size[1]
        pad_b  == (window_size[2] - (H % window_size[2])) % window_size[2]
        pad_r  == (window_size[3] - (W % window_size[3])) % window_size[3]
        padded == PadHigh(x, <<B, D + pad_d1, H + pad_b, W + pad_r, C>>)
        Dp == padded.shape[2]
        Hp == padded.shape[3]
        Wp == padded.shape[4]
        shifted_x == IF AnyPositive(shift_size)
                     THEN Roll(padded, <<0, 0 - shift_size[1], 0 - shift_size[2],
                                         0 - shift_size[3], 0>>)
                     ELSE padded
        x_windows == window_partition(shifted_x, window_size)
        attn_windows == x_windows
        reversed == window_reverse(attn_windows, window_size, B, Dp, Hp, Wp)
        unshifted == IF AnyPositive(shift_size)
                     THEN Roll(reversed, <<0, shift_size[1], shift_size[2],
                                           shift_size[3], 0>>)
                     ELSE reversed
        out == IF pad_d1 > 0 \/ pad_r > 0 \/ pad_b > 0
               THEN SlicePrefix(unshifted, <<B, D, H, W, C>>)
               ELSE unshifted
    IN  [window_size |-> window_size,
         shift_size  |-> shift_size,
         pad         |-> <<pad_d1, pad_b, pad_r>>,
         padded      |-> <<Dp, Hp, Wp>>,
         masked      |-> AnyPositive(shift_size),
         tokens      |-> out]

(***************************************************************************)
(* BasicLayer.forward: one stage of LyDepth blocks with the default        *)
(* jump_attention = False.  The token tensor of the stage input holds      *)
(* every token's flat offset.                                              *)
(***************************************************************************)
\* blocks of the modelled stage
LyDepth == 2

LyWindows == Windows(MaxLyWin)

\* the override windows drawn: the configured window, and the window halved
\* on every axis as (w * (base / 2)) // base halves it
LyResized(ws) == {ws, [i \in 1..3 |-> Max(1, ws[i] \div 2)]}

LyTokens == Volume(1, ly_x_size[1], ly_x_size[2], ly_x_size[3], 1)

\* BasicLayer.__init__: self.shift_size = tuple(i // 2 for i in window_size)
layer_shift_size(window_size) == [i \in 1..3 |-> window_size[i] \div 2]

\* BasicLayer.__init__: block i is built with shift (0,0,0) when i is even and
\* with self.shift_size otherwise
block_shift_size(i, shift_size) == IF i % 2 = 0 THEN <<0, 0, 0>> ELSE shift_size

LyInit ==
    /\ ly_pc = "start"
    /\ \E ws \in LyWindows :
          ly_self = [window_size |-> ws, shift_size |-> layer_shift_size(ws)]
    /\ ly_x_size \in (1..MaxD) \X (1..MaxHW) \X (1..MaxHW)
    /\ ly_resized \in {<<>>} \cup LyResized(ly_self.window_size)
    /\ ly_window_size = <<>>
    /\ ly_shift_size = <<>>
    /\ ly_padded = <<>>
    /\ ly_attn_mask = NoTensor
    /\ ly_i = 0
    /\ ly_blk = NoBlock

\* BasicLayer.forward up to the loop over the blocks: the effective window and
\* shift, the padded extents and the attention mask
LyBegin ==
    /\ ly_pc = "start"
    /\ LET ws == get_window_size(ly_x_size,
                                 IF ly_resized = <<>> THEN ly_self.window_size
                                 ELSE ly_resized,
                                 ly_self.shift_size)
           window_size == ws.use_window_size
           shift_size  == ws.use_shift_size
           Dp == CeilDiv(ly_x_size[1], window_size[1]) * window_size[1]
           Hp == CeilDiv(ly_x_size[2], window_size[2]) * window_size[2]
           Wp == CeilDiv(ly_x_size[3], window_size[3]) * window_size[3]
       IN  /\ ly_window_size' = window_size
           /\ ly_shift_size' = shift_size
           /\ ly_padded' = <<Dp, Hp, Wp>>
           /\ ly_attn_mask' = compute_mask(Dp, Hp, Wp, window_size, shift_size)
    /\ ly_pc' = "blocks"
    /\ UNCHANGED <<ly_self, ly_x_size, ly_resized, ly_i, ly_blk, notLy>>

\* one turn of the loop over self.blocks: block ly_i runs forward_part1 on the
\* tokens (the MLP phase keeps every token in its place)
LyBlock ==
    /\ ly_pc = "blocks"
    /\ ly_i < LyDepth
    /\ ly_blk' = forward_part1(ly_self.window_size,
                               block_shift_size(ly_i, ly_self.shift_size),
                               LyTokens, ly_resized)
    /\ ly_i' = ly_i + 1
    /\ UNCHANGED <<ly_pc, ly_self, ly_x_size, ly_resized, ly_window_size,
                   ly_shift_size, ly_padded, ly_attn_mask, notLy>>

LyNext == LyBegin \/ LyBlock

InitLayer == LyInit /\ OnlyLy

SpecLayer == InitLayer /\ [][LyNext]_vars

(***************************************************************************)
(* SwinTransformerBlock3D.forward on symbolic values: the blocks of one    *)
(* stage, each fed the output of the one before.                           *)
(***************************************************************************)
\* a block that runs its attention phase whatever jump_attention says
runs_attention_always(jump_attention) == TRUE

\* SwinTransformerBlock3D.forward: whether the attention phase runs
runs_attention(jump_attention) == ~jump_attention

\* checkpoint.checkpoint(f, x) returns f(x)
Checkpointed(use_checkpoint, fx) == fx

\* self.drop_path is DropPath(drop_path) if drop_path > 0.0 else nn.Identity()
drop_path(has_drop_path, x) == IF has_drop_path THEN Apply("drop_path", x) ELSE x

\* forward_part2(x) = self.drop_path(self.mlp(self.norm2(x)))
forward_part2(has_drop_path, x) ==
    drop_path(has_drop_path, Apply("mlp", Apply("norm2", x)))

\* the operations forward_part1 runs, in order, in a block whose effective
\* shift is positive on some axis (shifted) and whose input needs padding
\* (pads)
forward_part1_trace(shifted, pads) ==
    <<"norm1", "pad">>
    \o (IF shifted THEN <<"roll">> ELSE <<>>)
    \o <<"window_partition", "attn", "window_reverse">>
    \o (IF shifted THEN <<"roll">> ELSE <<>>)
    \o (IF pads THEN <<"crop">> ELSE <<>>)

\* blocks of the modelled stage: depths[2]
BkDepth == 6

BkInit ==
    /\ bk_pc = "call"
    /\ \E jump \in BOOLEAN, ckpt \in BOOLEAN, dp \in BOOLEAN, pads \in BOOLEAN :
          bk_self = [jump_attention |-> jump, use_checkpoint |-> ckpt,
                     has_drop_path |-> dp, pads |-> pads]
    /\ bk_i = 0
    /\ bk_in = Leaf("x")
    /\ bk_x = Leaf("x")
    /\ bk_trace = <<>>

\* forward is called on block bk_i: shortcut = x
BkCall ==
    /\ bk_pc = "call"
    /\ bk_i < BkDepth
    /\ bk_in' = bk_x
    /\ bk_trace' = <<>>
    /\ bk_pc' = IF runs_attention(bk_self.jump_attention) THEN "attn" ELSE "mlp"
    /\ UNCHANGED <<bk_self, bk_i, bk_x, notBk>>

\* the attention phase:
\* x = shortcut + self.drop_path(forward_part1(x, mask_matrix, resized_window_size))
BkAttention ==
    /\ bk_pc = "attn"
    /\ bk_x' = Add(bk_in, drop_path(bk_self.has_drop_path,
                      Checkpointed(bk_self.use_checkpoint,
                                   Apply("forward_part1", bk_x))))
    /\ bk_trace' = bk_trace \o forward_part1_trace(bk_i % 2 = 1, bk_self.pads)
                     \o <<"drop_path", "add">>
    /\ bk_pc' = "mlp"
    /\ UNCHANGED <<bk_self, bk_i, bk_in, notBk>>

\* the MLP phase: x = x + forward_part2(x), and forward returns x
BkMlp ==
    /\ bk_pc = "mlp"
    /\ bk_x' = Add(bk_x, Checkpointed(bk_self.use_checkpoint,
                                      forward_part2(bk_self.has_drop_path, bk_x)))
    /\ bk_trace' = bk_trace \o <<"norm2", "mlp", "drop_path", "add">>
    /\ bk_i' = bk_i + 1
    /\ bk_pc' = "call"
    /\ UNCHANGED <<bk_self, bk_in, notBk>>

BkNext == BkCall \/ BkAttention \/ BkMlp

InitBlocks == BkInit /\ OnlyBk

SpecBlocks == InitBlocks /\ [][BkNext]_vars

\* the operations of the attention phase
AttentionOps == {"norm1", "pad", "roll", "window_partition", "attn",
                 "window_reverse", "crop"}

\* C9: a block with jump_attention enabled never runs the attention phase,
\* and its output is x + drop_path(mlp(norm2(x))) for its input x, with or
\* without activation recomputation.
C9_JumpIsMlpOnly ==
    (bk_self.jump_attention /\ bk_pc = "call" /\ bk_i > 0) =>
        /\ \A k \in 1..Len(bk_trace) : bk_trace[k] \notin AttentionOps
        /\ bk_trace = <<"norm2", "mlp", "drop_path", "add">>
        /\ bk_x = Add(bk_in, drop_path(bk_self.has_drop_path,
                                       Apply("mlp", Apply("norm2", bk_in))))

\* the second block of a stage that skips attention and recomputes
\* activations has returned
C9_Witness ==
    /\ bk_self.jump_attention
    /\ bk_self.use_checkpoint
    /\ bk_pc = "call"
    /\ bk_i = 2
    /\ bk_in # Leaf("x")
    /\ bk_x = Add(bk_in, drop_path(bk_self.has_drop_path,
                                   Apply("mlp", Apply("norm2", bk_in))))

(***************************************************************************)
(* compute_mask as BasicLayer.forward calls it                             *)
(***************************************************************************)
\* the region id of token i of window n: img_mask cut into windows
RegionIds == window_partition(img_mask(ly_padded[1], ly_padded[2], ly_padded[3],
                                       ly_window_size, ly_shift_size),
                              ly_window_size)

MaxGw == 2

\* list(src): the name of a newly allocated object holding a copy of src
list_new(src, fresh) == fresh

\* heap after target[i] = v (i is 0-based)
setitem(heap, target, i, v) ==
    [heap EXCEPT ![target] = [@ EXCEPT ![i + 1] = v]]

GwInit ==
    /\ gw_pc = "call"
    /\ \E x_size \in Windows(MaxGw), window_size \in Windows(MaxGw),
          shift_size \in {<<>>} \cup
             {<<a, b, c>> : a \in 0..(MaxGw - 1), b \in 0..(MaxGw - 1),
                            c \in 0..(MaxGw - 1)} :
          gw_call = [x_size |-> x_size, window_size |-> window_size,
                     shift_size |-> shift_size]
    \* shift_size = <<>> is the default None
    /\ gw_heap = [x_size |-> gw_call.x_size, window_size |-> gw_call.window_size,
                  shift_size |-> gw_call.shift_size,
                  new_window |-> <<>>, new_shift |-> <<>>]
    /\ gw_use_window_size = "none"
    /\ gw_use_shift_size = "none"
    /\ gw_i = 0
    /\ gw_ret = <<>>

\* use_window_size = list(window_size)
\* if shift_size is not None: use_shift_size = list(shift_size)
GwCopy ==
    /\ gw_pc = "call"
    /\ LET w == list_new("window_size", "new_window")
           s == list_new("shift_size", "new_shift")
       IN  /\ gw_use_window_size' = w
           /\ gw_use_shift_size' =
                 IF gw_call.shift_size # <<>> THEN s ELSE "none"
           /\ gw_heap' = [gw_heap EXCEPT
                 ![w] = gw_heap.window_size,
                 ![s] = IF gw_call.shift_size # <<>> THEN gw_heap.shift_size
                        ELSE gw_heap[s]]
    /\ gw_pc' = "loop"
    /\ UNCHANGED <<gw_call, gw_i, gw_ret, notGw>>

\* one turn of: for i in range(len(x_size))
GwLoop ==
    /\ gw_pc = "loop"
    /\ gw_i < Len(gw_heap.x_size)
    /\ gw_heap' =
          IF gw_heap.x_size[gw_i + 1] <= gw_heap.window_size[gw_i + 1]
          THEN LET h1 == setitem(gw_heap, gw_use_window_size, gw_i,
                                 gw_heap.x_size[gw_i + 1])
               IN  IF gw_call.shift_size # <<>>
                   THEN setitem(h1, gw_use_shift_size, gw_i, 0)
                   ELSE h1
          ELSE gw_heap
    /\ gw_i' = gw_i + 1
    /\ UNCHANGED <<gw_pc, gw_call, gw_use_window_size, gw_use_shift_size, gw_ret,
                   notGw>>

\* return tuple(use_window_size), or the pair with tuple(use_shift_size)
GwReturn ==
    /\ gw_pc = "loop"
    /\ gw_i = Len(gw_heap.x_size)
    /\ gw_ret' = IF gw_call.shift_size = <<>>
                 THEN <<gw_heap[gw_use_window_size]>>
                 ELSE <<gw_heap[gw_use_window_size], gw_heap[gw_use_shift_size]>>
    /\ gw_pc' = "returned"
    /\ UNCHANGED <<gw_call, gw_heap, gw_use_window_size, gw_use_shift_size, gw_i,
                   notGw>>

GwNext == GwCopy \/ GwLoop \/ GwReturn

InitGetWindowSize == GwInit /\ OnlyGw

SpecGetWindowSize == InitGetWindowSize /\ [][GwNext]_vars

\* C6: get_window_size(x_size, window, shift) returns, on every axis with
\* x_size[i] <= window[i], the window x_size[i] and the shift 0, and on every
\* other axis window[i] and shift[i]; its three arguments hold after the call
\* what they held before it.
C6_GetWindowSize ==
    (gw_pc = "returned" /\ gw_call.shift_size # <<>>) =>
        /\ Len(gw_ret) = 2
        /\ \A i \in 1..3 :
              IF gw_call.x_size[i] <= gw_call.window_size[i]
              THEN gw_ret[1][i] = gw_call.x_size[i] /\ gw_ret[2][i] = 0
              ELSE /\ gw_ret[1][i] = gw_call.window_size[i]
                   /\ gw_ret[2][i] = gw_call.shift_size[i]
        /\ gw_heap.x_size = gw_call.x_size
        /\ gw_heap.window_size = gw_call.window_size
        /\ gw_heap.shift_size = gw_call.shift_size
        /\ LET r == get_window_size(gw_call.x_size, gw_call.window_size,
                                    gw_call.shift_size)
           IN  gw_ret = <<r.use_window_size, r.use_shift_size>>

\* a call that reduces the depth axis (extent equal to the window, shift
\* forced from 1 to 0) and keeps the width axis with its shift
C6_Witness ==
    /\ gw_pc = "returned"
    /\ gw_call.x_size = <<2, 1, 2>>
    /\ gw_call.window_size = <<2, 2, 1>>
    /\ gw_call.shift_size = <<1, 1, 1>>
    /\ gw_ret = <<<<2, 1, 1>>, <<0, 0, 1>>>>

(***************************************************************************)
(* The fragment gate: forward_part1 up to the call of self.attn, and the   *)
(* gate WindowAttention3D.forward derives from fmask.                      *)
(***************************************************************************)
MaxFgD == 2
MaxFgHW == 4
MaxFgWin == 2

FgInit ==
    /\ fg_pc = "start"
    /\ \E ws \in Windows(MaxFgWin), i \in 0..1 :
          fg_self = [window_size |-> ws,
                     shift_size |-> block_shift_size(i, layer_shift_size(ws))]
    /\ fg_x_size \in (1..MaxFgD) \X (1..MaxFgHW) \X (1..MaxFgHW)
    /\ fg_resized = <<>>
    /\ fg_window_size = <<>>
    /\ fg_shift_size = <<>>
    /\ fg_padded = <<>>
    /\ fg_fmask = NoTensor
    /\ fg_fgate = NoTensor

\* forward_part1: get_window_size, the padded extents and
\* gpi = global_position_index(Dp, Hp, Wp, fragments=(1,) + window_size[1:],
\*                             window_size, shift_size)
FgPart1 ==
    /\ fg_pc = "start"
    /\ LET ws == get_window_size(fg_x_size,
                                 IF fg_resized = <<>> THEN fg_self.window_size
                                 ELSE fg_resized,
                                 fg_self.shift_size)
           window_size == ws.use_window_size
           shift_size  == ws.use_shift_size
           Dp == fg_x_size[1] + ((window_size[1] - (fg_x_size[1] % window_size[1]))
                                    % window_size[1])
           Hp == fg_x_size[2] + ((window_size[2] - (fg_x_size[2] % window_size[2]))
                                    % window_size[2])
           Wp == fg_x_size[3] + ((window_size[3] - (fg_x_size[3] % window_size[3]))
                                    % window_size[3])
       IN  /\ fg_window_size' = window_size
           /\ fg_shift_size' = shift_size
           /\ fg_padded' = <<Dp, Hp, Wp>>
           /\ fg_fmask' = global_position_index(Dp, Hp, Wp,
                              <<1, window_size[2], window_size[3]>>,
                              window_size, shift_size)
    /\ fg_pc' = "attn"
    /\ UNCHANGED <<fg_x_size, fg_self, fg_resized, fg_fgate, notFg>>

\* WindowAttention3D.forward: fgate = fmask.abs().sum(-1)
FgGate ==
    /\ fg_pc = "attn"
    /\ fg_fgate' = attention_fgate(fg_fmask)
    /\ fg_pc' = "gated"
    /\ UNCHANGED <<fg_x_size, fg_self, fg_resized, fg_window_size, fg_shift_size,
                   fg_padded, fg_fmask, notFg>>

FgNext == FgPart1 \/ FgGate

InitGate == FgInit /\ OnlyFg

SpecGate == InitGate /\ [][FgNext]_vars

\* tokens i and j of window n carry the same fragment coordinates
SameFragment(n, i, j) ==
    \A c \in 0..2 : At(fg_fmask, <<n, i, j, c>>) = 0

\* C3: for every window and token pair (i, j), the gate is 1 when the two
\* tokens carry the same fragment coordinates and 0 otherwise.
C3_GateIsOneOnSameFragment ==
    fg_pc = "gated" =>
        \A n \in 0..(fg_fgate.shape[1] - 1), i \in 0..(fg_fgate.shape[2] - 1),
           j \in 0..(fg_fgate.shape[2] - 1) :
              At(fg_fgate, <<n, i, j>>) = IF SameFragment(n, i, j) THEN 1 ELSE 0

(***************************************************************************)
(* SwinTransformer3D.forward on shapes: a feature map is the record of its *)
(* channel count C and its extents D, H, W; the batch size never changes.  *)
(***************************************************************************)
\* the defaults of SwinTransformer3D.__init__
defaults ==
    [patch_size |-> <<2, 4, 4>>, in_chans |-> 3, embed_dim |-> 96,
     depths |-> <<2, 2, 6, 2>>, window_size |-> <<8, 7, 7>>,
     base_x_size |-> <<32, 224, 224>>]

\* self.num_layers = len(depths)
num_layers == Len(defaults.depths)

\* the clip lengths, frame sides, batch sizes and layer arguments drawn
Frames == {1, 16, 32, 64}
Sides == {3, 30, 112, 224}
BbBatch == {1, 2}
LayerArgs == {0 - 1, 0, 4}

\* a get_adaptive_window_size that rounds up
get_adaptive_window_size_ceil(base_window_size, input_x_size, base_x_size) ==
    [i \in 1..3 |-> CeilDiv(base_window_size[i] * input_x_size[i], base_x_size[i])]

\* get_adaptive_window_size(base_window_size, input_x_size, base_x_size)
get_adaptive_window_size(base_window_size, input_x_size, base_x_size) ==
    [i \in 1..3 |-> (base_window_size[i] * input_x_size[i]) \div base_x_size[i]]

\* PatchEmbed3D.forward: every axis padded at the high side to a multiple of
\* the patch, then Conv3d with kernel_size = stride = patch_size
PatchEmbed3D_shape(T, H, W) ==
    LET p == defaults.patch_size
        padded(n, k) == IF n % k # 0 THEN n + (k - (n % k)) ELSE n
    IN  [C |-> defaults.embed_dim, D |-> padded(T, p[1]) \div p[1],
         H |-> padded(H, p[2]) \div p[2], W |-> padded(W, p[3]) \div p[3]]

\* a backbone whose every stage ends with a PatchMerging
has_downsample_everywhere(i_layer) == TRUE

\* downsample = PatchMerging if i_layer < self.num_layers - 1 else None
has_downsample(i_layer) == i_layer < num_layers - 1

\* PatchMerging.forward on a shape: H and W padded by H % 2 and W % 2, the
\* stride-2 sub-grids, and the reduction from 4C to 2C channels
PatchMerging_forward_shape(x) ==
    [C |-> 2 * x.C, D |-> x.D, H |-> (x.H + (x.H % 2)) \div 2,
     W |-> (x.W + (x.W % 2)) \div 2]

\* rows of the index WindowAttention3D.forward selects for N tokens:
\* [:N, :N] of the flat table, or the 6D slice to resized_window_size
rpi_rows(configured, N, resized_window_size) ==
    IF resized_window_size = <<>> THEN Min(N, Prod(configured))
    ELSE Prod([i \in 1..3 |-> Min(resized_window_size[i], configured[i])])

BbInit ==
    /\ bb_pc = "call"
    /\ \E B \in BbBatch, T \in Frames, H \in Sides, W \in Sides,
          multi \in BOOLEAN, layer \in LayerArgs, adaptive \in BOOLEAN :
          bb_args = [B |-> B, T |-> T, H |-> H, W |-> W, multi |-> multi,
                     layer |-> layer, adaptive_window_size |-> adaptive]
    /\ bb_resized = <<>>
    /\ bb_x = <<>>
    /\ bb_feats = <<>>
    /\ bb_l = 0
    /\ bb_i = 0
    /\ bb_stage = <<>>
    /\ bb_blk = <<>>
    /\ bb_ret = <<>>

\* forward up to the loop over the stages: the override window, patch_embed,
\* pos_drop and feats = [x]
BbEmbed ==
    /\ bb_pc = "call"
    /\ bb_resized' = IF bb_args.adaptive_window_size
                     THEN get_adaptive_window_size(defaults.window_size,
                              <<bb_args.T, bb_args.H, bb_args.W>>,
                              defaults.base_x_size)
                     ELSE <<>>
    /\ bb_x' = PatchEmbed3D_shape(bb_args.T, bb_args.H, bb_args.W)
    /\ bb_feats' = <<[from |-> "patch_embed", index |-> 0 - 1, shape |-> bb_x']>>
    /\ bb_pc' = "layer"
    /\ UNCHANGED <<bb_args, bb_l, bb_i, bb_stage, bb_blk, bb_ret, notBb>>

\* BasicLayer.forward of stage bb_l up to the loop over its blocks; a window
\* of 0 on an axis makes D / window_size[0] raise
BbLayerBegin ==
    /\ bb_pc = "layer"
    /\ bb_l < num_layers
    /\ LET ws == get_window_size(<<bb_x.D, bb_x.H, bb_x.W>>,
                                 IF bb_resized = <<>> THEN defaults.window_size
                                 ELSE bb_resized,
                                 layer_shift_size(defaults.window_size))
           w == ws.use_window_size
       IN  IF \E i \in 1..3 : w[i] = 0
           THEN /\ bb_pc' = "raised"
                /\ bb_ret' = [error |-> "ZeroDivisionError"]
                /\ UNCHANGED bb_stage
           ELSE /\ bb_pc' = "blocks"
                /\ bb_stage' = [window_size |-> w,
                                shift_size |-> ws.use_shift_size,
                                padded |-> <<CeilDiv(bb_x.D, w[1]) * w[1],
                                             CeilDiv(bb_x.H, w[2]) * w[2],
                                             CeilDiv(bb_x.W, w[3]) * w[3]>>]
                /\ UNCHANGED bb_ret
    /\ bb_i' = 0
    /\ UNCHANGED <<bb_args, bb_resized, bb_x, bb_feats, bb_l, bb_blk, notBb>>

\* block bb_i of stage bb_l runs forward: the effective window and shift of
\* forward_part1, and the attention module's index for the N tokens of a
\* window, which must have N rows for the reshape to (N, N, -1) and the sum
\* with attn to go through
BbBlock ==
    /\ bb_pc = "blocks"
    /\ bb_i < defaults.depths[bb_l + 1]
    /\ LET ws == get_window_size(<<bb_x.D, bb_x.H, bb_x.W>>,
                                 IF bb_resized = <<>> THEN defaults.window_size
                                 ELSE bb_resized,
                                 block_shift_size(bb_i,
                                     layer_shift_size(defaults.window_size)))
           N == Prod(ws.use_window_size)
           rows == rpi_rows(defaults.window_size, N,
                            IF bb_resized = <<>> THEN <<>>
                            ELSE ws.use_window_size)
       IN  /\ bb_blk' = [stage |-> bb_l, block |-> bb_i,
                         window_size |-> ws.use_window_size,
                         shift_size |-> ws.use_shift_size,
                         N |-> N, rpi_rows |-> rows]
           /\ IF rows # N
              THEN /\ bb_pc' = "raised"
                   /\ bb_ret' = [error |-> "RuntimeError"]
                   /\ UNCHANGED bb_i
              ELSE /\ bb_i' = bb_i + 1
                   /\ UNCHANGED <<bb_pc, bb_ret>>
    /\ UNCHANGED <<bb_args, bb_resized, bb_x, bb_feats, bb_l, bb_stage, notBb>>

\* the end of BasicLayer.forward (the downsampler, if the stage has one) and
\* feats += [x] of the backbone's loop
BbLayerEnd ==
    /\ bb_pc = "blocks"
    /\ bb_i = defaults.depths[bb_l + 1]
    /\ bb_x' = IF has_downsample(bb_l) THEN PatchMerging_forward_shape(bb_x)
               ELSE bb_x
    /\ bb_feats' = Append(bb_feats,
                          [from |-> "stage", index |-> bb_l, shape |-> bb_x'])
    /\ bb_l' = bb_l + 1
    /\ bb_pc' = IF bb_l + 1 < num_layers THEN "layer" ELSE "norm"
    /\ UNCHANGED <<bb_args, bb_resized, bb_i, bb_stage, bb_blk, bb_ret, notBb>>

\* the final norm and the three ways forward returns
BbReturn ==
    /\ bb_pc = "norm"
    /\ bb_ret' =
          IF bb_args.multi
          THEN LET picked == SubSeq(bb_feats, 1, Len(bb_feats) - 1)
               IN  [parts |-> [k \in 1..Len(picked) |->
                                 [from |-> picked[k].from,
                                  index |-> picked[k].index]],
                    shape |-> <<bb_args.B,
                                SumTo([k \in 1..Len(picked) |-> picked[k].shape.C],
                                      Len(picked)),
                                bb_x.D, bb_x.H, bb_x.W>>]
          ELSE LET r == IF bb_args.layer > 0 - 1
                        THEN bb_feats[bb_args.layer + 1]
                        ELSE [from |-> "norm", index |-> num_layers - 1,
                              shape |-> bb_x]
               IN  [parts |-> <<[from |-> r.from, index |-> r.index]>>,
                    shape |-> <<bb_args.B, r.shape.C, r.shape.D, r.shape.H,
                                r.shape.W>>]
    /\ bb_pc' = "returned"
    /\ UNCHANGED <<bb_args, bb_resized, bb_x, bb_feats, bb_l, bb_i, bb_stage,
                   bb_blk, notBb>>

BbNext == BbEmbed \/ BbLayerBegin \/ BbBlock \/ BbLayerEnd \/ BbReturn

InitBackbone == BbInit /\ OnlyBb

SpecBackbone == InitBackbone /\ [][BbNext]_vars

\* C4: in every block forward call reachable from the backbone's forward,
\* the effective window and shift satisfy 0 <= shift[i] < window[i] on every
\* axis i.
C4_ShiftBelowWindow ==
    bb_blk # <<>> =>
        \A i \in 1..3 : /\ 0 <= bb_blk.shift_size[i]
                        /\ bb_blk.shift_size[i] < bb_blk.window_size[i]

\* C7: with the default topology the final output of forward for an input
\* (B, 3, T, H, W) has shape (B, 768, ceil(T/2), s(H), s(W)), s being one
\* ceil-division by 4 followed by three by 2; (1, 3, 32, 224, 224) gives
\* (1, 768, 16, 7, 7).  Without adaptive_window_size the call never raises.
C7_FinalShape ==
    /\ (bb_pc = "returned" /\ ~bb_args.multi /\ bb_args.layer = 0 - 1) =>
          LET FinalSide(n) == CeilDiv(CeilDiv(CeilDiv(CeilDiv(n, 4), 2), 2), 2)
          IN
          /\ bb_ret.shape = <<bb_args.B, 768, CeilDiv(bb_args.T, 2),
                              FinalSide(bb_args.H), FinalSide(bb_args.W)>>
          /\ (bb_args.B = 1 /\ bb_args.T = 32 /\ bb_args.H = 224
                /\ bb_args.W = 224) => bb_ret.shape = <<1, 768, 16, 7, 7>>
    /\ (bb_pc = "raised") => bb_args.adaptive_window_size

\* the default call on a (1, 3, 32, 224, 224) clip has returned
C7_Witness ==
    /\ bb_pc = "returned"
    /\ bb_args = [B |-> 1, T |-> 32, H |-> 224, W |-> 224, multi |-> FALSE,
                  layer |-> 0 - 1, adaptive_window_size |-> FALSE]
    /\ bb_ret.shape = <<1, 768, 16, 7, 7>>
    /\ Len(bb_feats) = 5

\* C10: with multi=True forward returns the concatenation of the outputs of
\* the 4 stages, and of nothing else.
C10_MultiIsTheFourStages ==
    (bb_pc = "returned" /\ bb_args.multi) =>
        bb_ret.parts = [k \in 1..num_layers |->
                           [from |-> "stage", index |-> k - 1]]

(***************************************************************************)
(* Freezing: the training flag of every module of the backbone and the     *)
(* requires_grad flag of the parameters each module owns.                  *)
(***************************************************************************)
MaxTrainCalls == 4

\* a new nn.Module is in training mode and its parameters require gradients
FzFresh ==
    [training |-> [patch_embed |-> TRUE, pos_drop |-> TRUE, norm |-> TRUE,
                   layers |-> [i \in 1..num_layers |-> TRUE]],
     requires_grad |-> [patch_embed |-> TRUE, norm |-> TRUE,
                        layers |-> [i \in 1..num_layers |-> TRUE]]]

\* nn.Module.train(mode): the flag of the module and of every child
Module_train(m, mode) ==
    [m EXCEPT !.training = [patch_embed |-> mode, pos_drop |-> mode,
                            norm |-> mode,
                            layers |-> [i \in 1..num_layers |-> mode]]]

\* a _freeze_stages that freezes nothing
freeze_stages_never(m, frozen_stages) == m

\* _freeze_stages on the flags m, for frozen_stages <= num_layers
freeze_stages(m, frozen_stages) ==
    LET m1 == IF frozen_stages >= 0
              THEN [m EXCEPT !.training.patch_embed = FALSE,
                             !.requires_grad.patch_embed = FALSE]
              ELSE m
    IN  IF frozen_stages >= 1
        THEN [m1 EXCEPT
                !.training.pos_drop = FALSE,
                !.training.layers = [i \in 1..num_layers |->
                    IF i - 1 < frozen_stages THEN FALSE ELSE @[i]],
                !.requires_grad.layers = [i \in 1..num_layers |->
                    IF i - 1 < frozen_stages THEN FALSE ELSE @[i]]]
        ELSE m1

FzInit ==
    /\ fz_pc = "init"
    /\ fz_frozen_stages \in (0 - 1)..(num_layers + 1)
    /\ fz_training = FzFresh.training
    /\ fz_requires_grad = FzFresh.requires_grad
    /\ fz_calls = <<>>

\* the call of self._freeze_stages() that ends __init__; self.layers[i]
\* raises IndexError for i = num_layers
FzConstruct ==
    /\ fz_pc = "init"
    /\ IF fz_frozen_stages > num_layers
       THEN /\ fz_pc' = "raised"
            /\ UNCHANGED <<fz_training, fz_requires_grad>>
       ELSE LET m == freeze_stages([training |-> fz_training,
                                    requires_grad |-> fz_requires_grad],
                                   fz_frozen_stages)
            IN  /\ fz_training' = m.training
                /\ fz_requires_grad' = m.requires_grad
                /\ fz_pc' = "ready"
    /\ UNCHANGED <<fz_frozen_stages, fz_calls, notFz>>

\* train(mode): super().train(mode), then self._freeze_stages()
FzTrain ==
    /\ fz_pc = "ready"
    /\ Len(fz_calls) < MaxTrainCalls
    /\ \E mode \in BOOLEAN :
          LET m == freeze_stages(
                       Module_train([training |-> fz_training,
                                     requires_grad |-> fz_requires_grad], mode),
                       fz_frozen_stages)
          IN  /\ fz_training' = m.training
              /\ fz_requires_grad' = m.requires_grad
              /\ fz_calls' = Append(fz_calls, mode)
    /\ UNCHANGED <<fz_pc, fz_frozen_stages, notFz>>

FzNext == FzConstruct \/ FzTrain

InitFreeze == FzInit /\ OnlyFz

SpecFreeze == InitFreeze /\ [][FzNext]_vars

\* C11: after construction and after every train(mode) call, the patch
\* embedding is in inference mode with non-trainable parameters when
\* frozen_stages >= 0, so is every stage below frozen_stages, and every stage
\* at or above frozen_stages is in the last requested mode (the training
\* mode a new module starts in, when train was never called).
C11_FrozenPartsStayFrozen ==
    fz_pc = "ready" =>
        LET k == fz_frozen_stages
            last == IF fz_calls = <<>> THEN TRUE ELSE fz_calls[Len(fz_calls)]
        IN  /\ k >= 0 => /\ ~fz_training.patch_embed
                         /\ ~fz_requires_grad.patch_embed
            /\ \A i \in 0..(num_layers - 1) :
                  IF i < k
                  THEN /\ ~fz_training.layers[i + 1]
                       /\ ~fz_requires_grad.layers[i + 1]
                  ELSE fz_training.layers[i + 1] = last

\* a backbone with two frozen stages switched to training, to inference and
\* to training again
C11_Witness ==
    /\ fz_pc = "ready"
    /\ fz_frozen_stages = 2
    /\ fz_calls = <<TRUE, FALSE, TRUE>>
    /\ fz_training.layers = <<FALSE, FALSE, TRUE, TRUE>>
    /\ fz_requires_grad.layers = <<FALSE, FALSE, TRUE, TRUE>>
    /\ ~fz_training.patch_embed

(***************************************************************************)
(* Loading pretrained weights: load_swin (a 3D checkpoint) and             *)
(* inflate_weights (a 2D checkpoint).  A state dict maps a key to the      *)
(* shape of its tensor and to where the tensor comes from.  A key is       *)
(* <<layer, block, name>>; the patch embedding's weight has layer -1.      *)
(***************************************************************************)
\* defaults of SwinTransformer3D.__init__
num_heads == <<3, 6, 12, 24>>
frag_biases == <<TRUE, TRUE, TRUE, FALSE>>

RPB == "relative_position_bias_table"
FPB == "fragment_position_bias_table"
ProjKey == <<0 - 1, 0, "patch_embed.proj.weight">>

\* <<layer, block>> of every block, in the order of the state dict
RECURSIVE BlocksFrom(_)
BlocksFrom(l) ==
    IF l > num_layers THEN <<>>
    ELSE [b \in 1..defaults.depths[l] |-> <<l - 1, b - 1>>] \o BlocksFrom(l + 1)

AllBlocks == BlocksFrom(1)

RpbKey(n) == <<AllBlocks[n][1], AllBlocks[n][2], RPB>>

\* self.state_dict(): the two bias tables of every attention module (the
\* fragment table where frag_bias is set) and the patch embedding's weight
LiveStateDict ==
    LET p == defaults.patch_size
        rows == bias_table_rows(defaults.window_size)
        keys == {<<AllBlocks[n][1], AllBlocks[n][2], RPB>> : n \in DOMAIN AllBlocks}
                \cup {<<AllBlocks[n][1], AllBlocks[n][2], FPB>> :
                        n \in {m \in DOMAIN AllBlocks :
                                  frag_biases[AllBlocks[m][1] + 1]}}
                \cup {ProjKey}
    IN  [k \in keys |->
            [shape |-> IF k = ProjKey
                       THEN <<defaults.embed_dim, defaults.in_chans,
                              p[1], p[2], p[3]>>
                       ELSE <<rows, num_heads[k[1] + 1]>>,
             from |-> "init"]]

\* rows of a checkpoint's bias table: of a 3D checkpoint of this
\* architecture (depth, height and width offsets), of a 2D one (height and
\* width offsets), and of checkpoints trained with a window one smaller in
\* height and width
CkptRows(pretrained2d, kind) ==
    LET w == defaults.window_size
        hw(a, b) == (2 * a - 1) * (2 * b - 1)
        planar == IF kind = "footprint" THEN hw(w[2] - 1, w[3] - 1)
                  ELSE hw(w[2], w[3])
    IN  IF pretrained2d THEN planar ELSE (2 * w[1] - 1) * planar

\* the checkpoint whose bias table n is of kind kinds[n]: "same", "heads"
\* (one head more than the live table) or "footprint"
Checkpoint(pretrained2d, kinds) ==
    LET p == defaults.patch_size
        keys == {RpbKey(n) : n \in DOMAIN AllBlocks} \cup {ProjKey}
        kindOf(k) == kinds[CHOOSE n \in DOMAIN AllBlocks : RpbKey(n) = k]
    IN  [k \in keys |->
            [shape |-> IF k = ProjKey
                       THEN IF pretrained2d
                            THEN <<defaults.embed_dim, defaults.in_chans, p[2], p[3]>>
                            ELSE <<defaults.embed_dim, defaults.in_chans,
                                   p[1], p[2], p[3]>>
                       ELSE <<CkptRows(pretrained2d, kindOf(k)),
                              num_heads[k[1] + 1]
                                + (IF kindOf(k) = "heads" THEN 1 ELSE 0)>>,
             from |-> "checkpoint"]]

\* int(x ** 0.5) for a non-negative integer x
Isqrt(x) == CHOOSE s \in 0..x : s * s <= x /\ x < (s + 1) * (s + 1)

\* Module.load_state_dict(state_dict, strict): every key of both dicts with
\* equal shapes is copied; a shape mismatch is an error whatever strict is,
\* a missing or unexpected key is one when strict; errors raise at the end
load_state_dict(live, state_dict, strict) ==
    LET both == DOMAIN live \cap DOMAIN state_dict
        mismatched == {k \in both : live[k].shape # state_dict[k].shape}
        stray == (DOMAIN live \ DOMAIN state_dict)
                 \cup (DOMAIN state_dict \ DOMAIN live)
    IN  [live |-> [k \in DOMAIN live |->
                     IF k \in both \ mismatched
                     THEN [shape |-> live[k].shape, from |-> state_dict[k].from]
                     ELSE live[k]],
         error |-> IF mismatched # {} \/ (strict /\ stray # {})
                   THEN "RuntimeError" ELSE "none"]

CkptKinds == {"same", "heads", "footprint"}

\* self.window_size: the shared triple, or one triple per stage
WindowOf(window_is_list, i_layer) == defaults.window_size

LdInit ==
    /\ ld_pc = "call"
    /\ \E pretrained2d \in BOOLEAN, window_is_list \in BOOLEAN,
          strict \in BOOLEAN :
          \* inflate_weights always loads with strict=False
          /\ pretrained2d => ~strict
          /\ ld_self = [pretrained2d |-> pretrained2d,
                        window_is_list |-> window_is_list, strict |-> strict]
    \* a checkpoint of this architecture but for the tables a and b
    /\ \E a \in DOMAIN AllBlocks, b \in DOMAIN AllBlocks,
          ka \in CkptKinds, kb \in CkptKinds :
          ld_ckpt = Checkpoint(ld_self.pretrained2d,
                       [n \in DOMAIN AllBlocks |->
                          IF n = a THEN ka ELSE IF n = b THEN kb ELSE "same"])
    /\ ld_dict = <<>>
    /\ ld_todo = <<>>
    /\ ld_live = LiveStateDict
    /\ ld_err = "none"

\* up to the loop over the bias tables.  load_swin: clean_dict holds every
\* checkpoint key with its "backbone." prefix cut, and each relative table
\* once more under the fragment table's name.  inflate_weights: the patch
\* embedding's weight is repeated patch_size[0] times on a new axis 2.
LdStart ==
    /\ ld_pc = "call"
    /\ ld_dict' =
          IF ld_self.pretrained2d
          THEN [k \in DOMAIN ld_ckpt |->
                  IF k = ProjKey
                  THEN LET s == ld_ckpt[k].shape
                       IN  [shape |-> <<s[1], s[2], defaults.patch_size[1],
                                        s[3], s[4]>>,
                            from |-> "checkpoint"]
                  ELSE ld_ckpt[k]]
          ELSE LET forked == {<<k[1], k[2], FPB>> :
                                k \in {c \in DOMAIN ld_ckpt : c[3] = RPB}}
               IN  [k \in DOMAIN ld_ckpt \cup forked |->
                      IF k \in DOMAIN ld_ckpt THEN ld_ckpt[k]
                      ELSE ld_ckpt[<<k[1], k[2], RPB>>]]
    /\ ld_todo' = [n \in DOMAIN AllBlocks |-> RpbKey(n)]
    /\ ld_pc' = "keys"
    /\ UNCHANGED <<ld_self, ld_ckpt, ld_live, ld_err, notLd>>

\* one turn of the loop of load_swin over relative_position_bias_table_keys:
\* the new value of clean_dict[k], or the exception raised
load_swin_key(pretrained, current, window_is_list, i_layer) ==
    LET L1 == pretrained.shape[1]
        nH1 == pretrained.shape[2]
        nH2 == current.shape[2]
        w == WindowOf(window_is_list, i_layer)
        L2 == (2 * w[2] - 1) * (2 * w[3] - 1)
        S1 == Isqrt(L1 \div 15)
    IN  IF nH1 # nH2 THEN [error |-> "none", value |-> pretrained]
        ELSE IF L1 = L2 THEN [error |-> "none", value |-> pretrained]
        \* .view(nH1, 15, S1, S1) needs L1 = 15 * S1 * S1
        ELSE IF L1 # 15 * S1 * S1
             THEN [error |-> "RuntimeError", value |-> pretrained]
        \* size=(2 * self.window_size[i_layer][1] - 1, ...): i_layer is
        \* assigned only when self.window_size is a list
        ELSE IF ~window_is_list
             THEN [error |-> "UnboundLocalError", value |-> pretrained]
        ELSE [error |-> "none",
              value |-> [shape |-> <<nH2, 15, L2>>, from |-> "resized"]]

\* one turn of the loop of inflate_weights: the new value of state_dict[k],
\* or the exception raised
inflate_weights_key(pretrained, current, window_is_list) ==
    LET L1 == pretrained.shape[1]
        nH1 == pretrained.shape[2]
        nH2 == current.shape[2]
        w == defaults.window_size
        L2 == (2 * w[2] - 1) * (2 * w[3] - 1)
        wd == w[1]
        S1 == Isqrt(L1)
        repeat(v) == [shape |-> <<v.shape[1] * (2 * wd - 1), v.shape[2]>>,
                      from |-> v.from]
    IN  \* 2 * self.window_size[1] - 1 with self.window_size a list of triples
        IF window_is_list THEN [error |-> "TypeError", value |-> pretrained]
        ELSE IF nH1 # nH2 THEN [error |-> "none", value |-> repeat(pretrained)]
        ELSE IF L1 = L2 THEN [error |-> "none", value |-> repeat(pretrained)]
        \* .view(1, nH1, S1, S1) needs L1 = S1 * S1
        ELSE IF L1 # S1 * S1
             THEN [error |-> "RuntimeError", value |-> pretrained]
        ELSE [error |-> "none",
              value |-> repeat([shape |-> <<L2, nH2>>, from |-> "resized"])]

LdKey ==
    /\ ld_pc = "keys"
    /\ ld_todo # <<>>
    /\ LET k == Head(ld_todo)
           r == IF ld_self.pretrained2d
                THEN inflate_weights_key(ld_dict[k], ld_live[k],
                                         ld_self.window_is_list)
                ELSE load_swin_key(ld_dict[k], ld_live[k],
                                   ld_self.window_is_list, k[1])
       IN  IF r.error # "none"
           THEN /\ ld_pc' = "raised"
                /\ ld_err' = r.error
                /\ UNCHANGED <<ld_dict, ld_todo>>
           ELSE /\ ld_dict' = [ld_dict EXCEPT ![k] = r.value]
                /\ ld_todo' = Tail(ld_todo)
                /\ ld_pc' = IF Tail(ld_todo) # <<>> THEN "keys"
                            ELSE IF ld_self.pretrained2d THEN "load" ELSE "pop"
                /\ UNCHANGED ld_err
    /\ UNCHANGED <<ld_self, ld_ckpt, ld_live, notLd>>

\* load_swin, "Clean Mismatched Keys": every key of the model whose shape
\* differs from clean_dict's is popped from clean_dict
LdPop ==
    /\ ld_pc = "pop"
    /\ LET popped == {k \in DOMAIN ld_live \cap DOMAIN ld_dict :
                         ld_live[k].shape # ld_dict[k].shape}
       IN  ld_dict' = [k \in DOMAIN ld_dict \ popped |-> ld_dict[k]]
    /\ ld_pc' = "load"
    /\ UNCHANGED <<ld_self, ld_ckpt, ld_todo, ld_live, ld_err, notLd>>

\* self.load_state_dict(clean_dict, strict=strict), or
\* self.load_state_dict(state_dict, strict=False)
LdLoad ==
    /\ ld_pc = "load"
    /\ LET r == load_state_dict(ld_live, ld_dict, ld_self.strict)
       IN  /\ ld_live' = r.live
           /\ ld_err' = r.error
           /\ ld_pc' = IF r.error # "none" THEN "raised" ELSE "loaded"
    /\ UNCHANGED <<ld_self, ld_ckpt, ld_dict, ld_todo, notLd>>

LdNext == LdStart \/ LdKey \/ LdPop \/ LdLoad

InitLoad == LdInit /\ OnlyLd

SpecLoad == InitLoad /\ [][LdNext]_vars

\* the checkpoint's relative tables whose head count differs from the live
\* table's
HeadMismatched ==
    {k \in DOMAIN ld_ckpt : k[3] = RPB
                            /\ ld_ckpt[k].shape[2] # LiveStateDict[k].shape[2]}

\* C12: when load_swin is given a checkpoint with a relative table of a
\* different head count, the load completes without raising, every bias
\* table key is processed, and the live table keeps its initial value.
C12_HeadMismatchSkippedBySwin ==
    (/\ ld_pc \in {"loaded", "raised"}
     /\ ~ld_self.pretrained2d
     /\ ~ld_self.strict
     /\ HeadMismatched # {}) =>
        /\ ld_pc = "loaded"
        /\ ld_todo = <<>>
        /\ \A k \in HeadMismatched : ld_live[k].from = "init"

\* C13: when inflate_weights is given a checkpoint with a relative table of
\* a different head count, that key reaches load_state_dict with no shape
\* mismatch (or not at all), the load completes without raising and the
\* live table keeps its value.
C13_HeadMismatchSkippedByInflate ==
    (/\ ld_pc \in {"load", "loaded", "raised"}
     /\ ld_self.pretrained2d
     /\ ~ld_self.window_is_list
     /\ HeadMismatched # {}) =>
        /\ ld_pc # "raised"
        /\ \A k \in HeadMismatched :
              /\ k \in DOMAIN ld_dict => ld_dict[k].shape = ld_live[k].shape
              /\ ld_live[k].from = "init"

(***************************************************************************)
(* The memoized builders.  functools.lru_cache keeps the most recently     *)
(* used results, keyed by the whole argument tuple; the cache is a         *)
(* sequence of entries, the most recently used one last.                   *)
(***************************************************************************)
\* entries the modelled cache holds (lru_cache holds 128)
CacheSize == 2

\* the argument tuples the stage and its blocks call the builders with
McArgs ==
    {[D |-> s[1], H |-> s[2], W |-> s[3], fragments |-> <<1, 2, 2>>,
      window_size |-> <<1, 2, 2>>, shift_size |-> sh, device |-> dev] :
       s \in {<<1, 2, 2>>, <<1, 4, 4>>}, sh \in {<<0, 0, 0>>, <<0, 1, 1>>},
       dev \in {"cpu", "cuda:0"}}

\* a cache key that leaves the shift out
cache_key_noShift(fn, args) ==
    IF fn = "compute_mask"
    THEN <<args.D, args.H, args.W, args.window_size, args.device>>
    ELSE <<args.D, args.H, args.W, args.fragments, args.window_size,
           args.device>>

\* the key lru_cache makes of a call: every argument of the function
cache_key(fn, args) ==
    IF fn = "compute_mask"
    THEN <<args.D, args.H, args.W, args.window_size, args.shift_size,
           args.device>>
    ELSE <<args.D, args.H, args.W, args.fragments, args.window_size,
           args.shift_size, args.device>>

\* what the undecorated functions return on the drawn arguments: a tensor on
\* the device asked for
UncachedTable ==
    [fn \in {"compute_mask", "global_position_index"} |->
       [args \in McArgs |->
          [tensor |-> IF fn = "compute_mask"
                      THEN Mat(compute_mask(args.D, args.H, args.W,
                                            args.window_size, args.shift_size))
                      ELSE global_position_index(args.D, args.H, args.W,
                               args.fragments, args.window_size,
                               args.shift_size),
           device |-> args.device]]]

Uncached(fn, args) == UncachedTable[fn][args]

\* positions of the cache that hold key
CachePos(cache, key) == {n \in DOMAIN cache : cache[n].key = key}

\* the sequence without its element n
Without(seq, n) == SubSeq(seq, 1, n - 1) \o SubSeq(seq, n + 1, Len(seq))

McInit ==
    /\ mc_fn \in {"compute_mask", "global_position_index"}
    /\ mc_cache = <<>>
    /\ mc_args = <<>>
    /\ mc_ret = <<>>
    /\ mc_hit = FALSE

\* a call whose key is cached: the cached result, now the most recently used
McHit ==
    /\ mc_fn # "none"
    /\ \E args \in McArgs :
          LET key == cache_key(mc_fn, args)
          IN  /\ CachePos(mc_cache, key) # {}
              /\ LET n == CHOOSE m \in CachePos(mc_cache, key) : TRUE
                 IN  /\ mc_ret' = mc_cache[n].result
                     /\ mc_cache' = Append(Without(mc_cache, n), mc_cache[n])
              /\ mc_args' = args
    /\ mc_hit' = TRUE
    /\ UNCHANGED <<mc_fn, notMc>>

\* a call whose key is not cached: the function runs, its result is stored
\* and the least recently used entry leaves a full cache
McMiss ==
    /\ mc_fn # "none"
    /\ \E args \in McArgs :
          LET key == cache_key(mc_fn, args)
              result == Uncached(mc_fn, args)
              kept == IF Len(mc_cache) >= CacheSize THEN Tail(mc_cache)
                      ELSE mc_cache
          IN  /\ CachePos(mc_cache, key) = {}
              /\ mc_ret' = result
              /\ mc_cache' = Append(kept, [key |-> key, result |-> result])
              /\ mc_args' = args
    /\ mc_hit' = FALSE
    /\ UNCHANGED <<mc_fn, notMc>>

McNext == McHit \/ McMiss

InitCache == McInit /\ OnlyMc

SpecCache == InitCache /\ [][McNext]_vars

\* C14: after any sequence of calls, evictions included, a call of a
\* memoized builder returns what the undecorated function computes for the
\* call's own arguments, on the device asked for; hence equal arguments give
\* equal results.
C14_CacheReturnsOwnValue ==
    (mc_fn # "none" /\ mc_args # <<>>) =>
        /\ mc_ret = Uncached(mc_fn, mc_args)
        /\ \A n \in DOMAIN mc_cache :
              \A args \in McArgs :
                 cache_key(mc_fn, args) = mc_cache[n].key =>
                    mc_cache[n].result = Uncached(mc_fn, args)
        /\ Len(mc_cache) <= CacheSize

\* a hit on the shifted mask after another entry has been evicted from a
\* full cache
C14_Witness ==
    /\ mc_fn = "compute_mask"
    /\ mc_hit
    /\ mc_args # <<>>
    /\ mc_args.shift_size = <<0, 1, 1>>
    /\ Len(mc_cache) = CacheSize
    /\ \E k \in DOMAIN mc_ret.tensor.data : mc_ret.tensor.data[k] = 0 - 100

(***************************************************************************)
(* get_adaptive_window_size on its own                                     *)
(***************************************************************************)
MaxAw == 2

AwInit ==
    /\ aw_pc = "call"
    /\ \E bw \in Windows(MaxAw) \cup {defaults.window_size},
          ix \in Windows(MaxAw) \cup {<<16, 112, 112>>, <<32, 224, 224>>},
          bx \in Windows(MaxAw) \cup {defaults.base_x_size} :
          aw_args = [base_window_size |-> bw, input_x_size |-> ix,
                     base_x_size |-> bx]
    /\ aw_ret = <<>>

AwCall ==
    /\ aw_pc = "call"
    /\ aw_ret' = get_adaptive_window_size(aw_args.base_window_size,
                                          aw_args.input_x_size,
                                          aw_args.base_x_size)
    /\ aw_pc' = "returned"
    /\ UNCHANGED <<aw_args, notAw>>

AwNext == AwCall

InitAdaptive == AwInit /\ OnlyAw

SpecAdaptive == InitAdaptive /\ [][AwNext]_vars

\* C15: get_adaptive_window_size returns on each axis i the floor of
\* base_window[i] * input_size[i] / base_size[i], the integer r with
\* r * base_size[i] <= base_window[i] * input_size[i] < (r + 1) * base_size[i];
\* ((8,7,7), (16,112,112), (32,224,224)) gives (4,3,3).
C15_AdaptiveWindowIsFloor ==
    aw_pc = "returned" =>
        /\ Len(aw_ret) = 3
        /\ \A i \in 1..3 :
              LET p == aw_args.base_window_size[i] * aw_args.input_x_size[i]
                  b == aw_args.base_x_size[i]
              IN  /\ aw_ret[i] * b <= p
                  /\ p < (aw_ret[i] + 1) * b
        /\ (aw_args = [base_window_size |-> <<8, 7, 7>>,
                       input_x_size |-> <<16, 112, 112>>,
                       base_x_size |-> <<32, 224, 224>>])
              => aw_ret = <<4, 3, 3>>

\* the call of the example has returned (4,3,3), 7 * 112 / 224 being 3.5
C15_Witness ==
    /\ aw_pc = "returned"
    /\ aw_args = [base_window_size |-> <<8, 7, 7>>,
                  input_x_size |-> <<16, 112, 112>>,
                  base_x_size |-> <<32, 224, 224>>]
    /\ aw_ret = <<4, 3, 3>>

(***************************************************************************)
(* The position bookkeeping of forward_part1, and its agreement with the   *)
(* stage that computed the mask                                            *)
(***************************************************************************)
\* C16: in the attention phase of a block, pad -> roll by -shift ->
\* window_partition -> window_reverse -> roll by +shift -> crop is the
\* identity on token positions: the padded extents are the smallest multiples
\* of the effective window that are >= the input extents, the value attention
\* produced for the token at (d,h,w) is returned at (d,h,w), and the output
\* has the input's shape (B,D,H,W,C).
C16_BookkeepingIsIdentity ==
    ly_blk # NoBlock =>
        /\ \A a \in 1..3 :
              /\ ly_blk.padded[a] % ly_blk.window_size[a] = 0
              /\ ly_blk.padded[a] >= ly_x_size[a]
              /\ ly_blk.padded[a] - ly_blk.window_size[a] < ly_x_size[a]
        /\ ly_blk.tokens.shape = <<1, ly_x_size[1], ly_x_size[2], ly_x_size[3], 1>>
        /\ \A d \in 0..(ly_x_size[1] - 1), h \in 0..(ly_x_size[2] - 1),
              w \in 0..(ly_x_size[3] - 1) :
              At(ly_blk.tokens, <<0, d, h, w, 0>>) = At(LyTokens, <<0, d, h, w, 0>>)

\* a block that padded on the height axis and rolled on the width axis has
\* returned the last token of the input in the last place
C16_Witness ==
    /\ ly_blk # NoBlock
    /\ ly_blk.pad[2] > 0
    /\ ly_blk.shift_size[3] > 0
    /\ At(ly_blk.tokens, <<0, ly_x_size[1] - 1, ly_x_size[2] - 1,
                           ly_x_size[3] - 1, 0>>)
          = ly_x_size[1] * ly_x_size[2] * ly_x_size[3] - 1

\* C17: in a stage forward call, every block that applies the mask (effective
\* shift nonzero on some axis) derives the (window, shift) pair and the padded
\* extents the stage derived when it computed the mask, so the mask has as
\* many windows, and as many tokens per window, as the block's partitioned
\* input.
C17_BlockAgreesWithStage ==
    (ly_blk # NoBlock /\ ly_blk.masked) =>
        /\ ly_blk.window_size = ly_window_size
        /\ ly_blk.shift_size = ly_shift_size
        /\ ly_blk.padded = ly_padded
        /\ LET x_windows == window_partition(
                               Volume(1, ly_blk.padded[1], ly_blk.padded[2],
                                      ly_blk.padded[3], 1),
                               ly_blk.window_size)
           IN  /\ ly_attn_mask.shape[1] = x_windows.shape[1]
               /\ ly_attn_mask.shape[2] = x_windows.shape[2]
               /\ ly_attn_mask.shape[3] = x_windows.shape[2]

\* the second block of a stage has applied the mask on an input it had to pad
C17_Witness ==
    /\ ly_i = 2
    /\ ly_blk.masked
    /\ \E a \in 1..3 : ly_padded[a] > ly_x_size[a]
    /\ ly_attn_mask.shape[1] > 1

(***************************************************************************)
(* The relative position index as a code of relative offsets               *)
(***************************************************************************)
\* C18: every entry of the relative position index built at construction lies
\* in [0, (2wd-1)(2wh-1)(2ww-1)), and two token pairs receive the same index
\* if and only if they have the same relative offset (dd,dh,dw): the pairs
\* (offset, index) of the table are as many as its offsets and as many as its
\* indices.  The same holds for the entries of a 6D slice of the table to a
\* smaller window.
C18_IndexCodesTheOffset ==
    /\ ix_pc = "built" =>
          LET N     == Prod(ix_window_size)
              pos(i) == Unravel(i, ix_window_size)
              pairs == {<<[a \in 1..3 |-> pos(i)[a] - pos(j)[a]],
                          At(ix_index, <<i, j>>)>> :
                            i \in 0..(N - 1), j \in 0..(N - 1)}
          IN  /\ \A pr \in pairs :
                    pr[2] >= 0 /\ pr[2] < bias_table_rows(ix_window_size)
              /\ Cardinality(pairs) = Cardinality({pr[1] : pr \in pairs})
              /\ Cardinality(pairs) = Cardinality({pr[2] : pr \in pairs})
    /\ (ix_pc = "forward" /\ ix_resized # <<>>) =>
          LET pairs == {<<[a \in 1..3 |-> Unravel(k, ix_rpi.shape)[a]
                                           - Unravel(k, ix_rpi.shape)[a + 3]],
                          ix_rpi.data[k]>> : k \in DOMAIN ix_rpi.data}
          IN  /\ \A pr \in pairs :
                    pr[2] >= 0 /\ pr[2] < bias_table_rows(ix_window_size)
              /\ Cardinality(pairs) = Cardinality({pr[1] : pr \in pairs})
              /\ Cardinality(pairs) = Cardinality({pr[2] : pr \in pairs})

\* a slice of the window (2,2,2) to (1,2,2): the pairs (0,0,0)-(0,0,1) and
\* (0,1,0)-(0,1,1) share the offset (0,0,-1) and the index, the pair
\* (0,0,1)-(0,0,0) has another offset and another index
C18_Witness ==
    /\ ix_pc = "forward"
    /\ ix_window_size = <<2, 2, 2>>
    /\ ix_resized = <<1, 2, 2>>
    /\ At(ix_rpi, <<0, 0, 0, 0, 0, 1>>) = At(ix_rpi, <<0, 1, 0, 0, 1, 1>>)
    /\ At(ix_rpi, <<0, 0, 0, 0, 0, 1>>) # At(ix_rpi, <<0, 0, 1, 0, 0, 0>>)
    /\ At(ix_index, <<7, 0>>) = bias_table_rows(ix_window_size) - 1

\* C19: in every forward call with adaptive_window_size enabled, the override
\* window handed to an attention module is a valid sub-window of the module's
\* configured window, 1 <= override[i] <= configured[i] on every axis i, and
\* the 6D index slice holds override-volume squared entries (N rows of N).
C19_OverrideIsSubWindow ==
    (bb_args.adaptive_window_size /\ bb_blk # <<>>) =>
        /\ \A i \in 1..3 : /\ 1 <= bb_blk.window_size[i]
                           /\ bb_blk.window_size[i] <= defaults.window_size[i]
        /\ bb_blk.rpi_rows = bb_blk.N

\* C20: without a window override, when the window was reduced to (d,h,w) with
\* N = d*h*w tokens, fewer than the configured window holds, the index the
\* attention uses (rows and columns [:N,:N] of the flat full-window table)
\* gives every token pair (i,j) of the reduced window the bias-table entry of
\* the pair's relative offset inside the (d,h,w) window, whichever axis was
\* reduced.
C20_FlatPrefixCodesTrueOffset ==
    (ix_pc = "forward" /\ ix_resized = <<>> /\ ix_use_window # ix_window_size) =>
        LET N == Prod(ix_use_window)
            pos(i) == Unravel(i, ix_use_window)
        IN  /\ ix_rpi.shape = <<N, N>>
            /\ \A i \in 0..(N - 1), j \in 0..(N - 1) :
                  At(ix_rpi, <<i, j>>) =
                     OffsetCode(ix_window_size, pos(i)[1], pos(i)[2], pos(i)[3],
                                pos(j)[1], pos(j)[2], pos(j)[3])

\* C21: in load_swin, for either form of window configuration (one shared
\* triple or a per-stage list), a checkpoint relative table whose head count
\* matches the live table but whose footprint differs is resized to the live
\* table's shape (rows, heads) and then loaded into the model rather than
\* dropped, and no step raises.
C21_FootprintMismatchResizedAndLoaded ==
    LET differing == {k \in DOMAIN ld_ckpt :
                         /\ k[3] = RPB
                         /\ ld_ckpt[k].shape[2] = LiveStateDict[k].shape[2]
                         /\ ld_ckpt[k].shape[1] # LiveStateDict[k].shape[1]}
    IN  (/\ ld_pc \in {"loaded", "raised"}
         /\ ~ld_self.pretrained2d
         /\ ~ld_self.strict
         /\ differing # {}) =>
            /\ ld_pc = "loaded"
            /\ \A k \in differing :
                  /\ k \in DOMAIN ld_dict
                  /\ ld_dict[k].shape = LiveStateDict[k].shape
                  /\ ld_live[k].from = "resized"

=============================================================================
